---- MODULE Spec2Model ----
(***************************************************************************)
(* A model of the path-tracing-gl demo: tools::Timer, tools::Camera and    *)
(* the std140 encoder of tools::Primitive.                                 *)
(*                                                                         *)
(* Time is counted in ticks of std::chrono::high_resolution_clock; real    *)
(* numbers of the camera are fixed-point integers (value * Fix); the       *)
(* uniform buffer is an array of bytes.                                    *)
(***************************************************************************)
EXTENDS Integers, Sequences, FiniteSets, TLC

VARIABLES
    \* ---- tools::Timer (Timer.hpp:13-27)
    currentFrameTick_, previousFrameTick_, lastFpsCounterUpdatedTime_,
    initializationTime_, framesCount_, fps_, fpsCounterReady_, delta_,
    \* the clock read by high_resolution_clock::now(), the number of
    \* updateTimer() calls made so far, how many of them refreshed fps_ and
    \* the sum of the values they assigned to fps_
    now, updates, refreshes, fpsAssigned,
    \* what the last call of getCurrentTime() returned (whole microseconds)
    currentTime,
    \* ---- tools::Camera (Camera.hpp:27-54)
    modelMatrix_, viewMatrix_, position_, orientation_, velocityRel_,
    velocity_,
    \* its projection: the two matrices, each held as the glm call that built
    \* it, and the parameters (numbers in hundredths)
    projectionMatrix_, projectionInverseMatrix_, projectionType_, zNear_,
    zFar_, fov_, aspect_,
    \* ---- a call of the two rotation builders on orientation_: the axis
    \* order given to makeRotationMatrix() and what the two returned
    rotAxes, rotEuler, rotQuat,
    \* ---- the data store of the uniform buffer g_uboPrimitives
    uboPrimitives,
    \* ---- main(): the statement it is at, the scene collection, the index i
    \* of its encode loop, the data store of g_uboCommonSettings, the calls
    \* made so far by the current iteration of the frame loop and the
    \* deltaTime last given to Camera::updatePlacement (microseconds)
    pc, g_primitives, encodeIndex, uboCommonSettings, frameOps,
    placementDelta,
    \* ---- the uniforms of g_shaderMain that RenderQuad() sets
    shaderUniforms,
    \* ---- the OpenGL context g_hglrc ("none", "current" or "deleted") and
    \* whether GLAD has loaded the OpenGL functions
    glContext, glLoaded,
    \* ---- the move-only wrappers of gl/: the class under study, its objects,
    \* the number of OpenGL names generated so far and, for each of them, how
    \* many times a glDelete* call was given it
    wrapperClass, objects, handlesCreated, deletions

timerVars == <<currentFrameTick_, previousFrameTick_, lastFpsCounterUpdatedTime_,
               initializationTime_, framesCount_, fps_, fpsCounterReady_, delta_,
               now, updates, refreshes, fpsAssigned, currentTime>>

projectionVars == <<projectionMatrix_, projectionInverseMatrix_,
                    projectionType_, zNear_, zFar_, fov_, aspect_>>

cameraVars == <<modelMatrix_, viewMatrix_, position_, orientation_,
                velocityRel_, velocity_, projectionVars>>

rotVars == <<rotAxes, rotEuler, rotQuat>>

mainVars == <<pc, g_primitives, encodeIndex, uboCommonSettings, frameOps,
              placementDelta, shaderUniforms, glContext, glLoaded>>

glVars == <<glContext, glLoaded>>

wrapVars == <<wrapperClass, objects, handlesCreated, deletions>>

vars == <<timerVars, cameraVars, rotVars, uboPrimitives, mainVars, wrapVars>>

(***************************************************************************)
(* Bounds of the model.                                                    *)
(***************************************************************************)
\* updateTimer() calls in one run
MaxUpdates == 4

\* The camera stays in the cube of coordinates -MaxPos..MaxPos (fixed-point).
MaxPos == 2

\* The largest slot index given to the encoder
MaxIndex == 1

\* Iterations of main()'s frame loop in one run
MaxFrames == 2

\* Wrapper objects of one class alive in one run
NumObjects == 3

\* Constructions and attachments that generate OpenGL names in one run
MaxGenerations == 3

\* Attachments of each kind added to one FrameBuffer
MaxAttachments == 1

(***************************************************************************)
(* tools::Timer                                                            *)
(***************************************************************************)
\* Ticks of high_resolution_clock in one microsecond (a 100 ns tick: the
\* clock is finer than the microseconds and milliseconds the Timer casts to).
TicksPerMicro == 10

TicksPerMilli == 1000 * TicksPerMicro

\* duration_cast to a coarser unit truncates toward zero.
DurationCast(ticks, unit) ==
    IF ticks >= 0 THEN ticks \div unit ELSE -((-ticks) \div unit)

\* What the clock may advance between two successive samples: nothing, half
\* a microsecond, one 60 Hz frame (16.667 ms), 1000 ms exactly, 1000.5 ms,
\* 1001 ms.
ClockSteps ==
    {0, 5, 166670, 1000 * TicksPerMilli, 1000 * TicksPerMilli + 5000,
     1001 * TicksPerMilli}

\* What the clock may advance between two samples of one constructor call.
CtorSteps == {0, 5}

\* The clock's value when the Timer is constructed (time_point() is 0).
StartTicks == {1000 * TicksPerMilli}

\* Timer::Timer(): three samples of the clock, in the members' declaration
\* order (currentFrameTick_, lastFpsCounterUpdatedTime_) and then the body's
\* (initializationTime_); previousFrameTick_ is default-constructed.
TimerCtor ==
    \E t0 \in StartTicks, d1 \in CtorSteps, d2 \in CtorSteps :
        /\ currentFrameTick_ = t0
        /\ previousFrameTick_ = 0
        /\ lastFpsCounterUpdatedTime_ = t0 + d1
        /\ framesCount_ = 0
        /\ fps_ = 0
        /\ fpsCounterReady_ = FALSE
        /\ delta_ = 0
        /\ initializationTime_ = t0 + d1 + d2
        /\ now = t0 + d1 + d2
        /\ updates = 0
        /\ refreshes = 0
    /\ fpsAssigned = 0
        /\ fpsAssigned = 0
        /\ currentTime = 0

\* The FPS test of updateTimer(): whole milliseconds since the last refresh.
FpsWindowElapsed(current, last) ==
    DurationCast(current - last, TicksPerMilli) > 1000

\* A counter incremented before the FPS test instead of after it.
FramesCountIncrementedFirst(refresh, count) ==
    IF refresh THEN 0 ELSE count + 1

\* A counter that the refresh does not reset.
FramesCountNotReset(refresh, count) == count + 1

\* framesCount_ as updateTimer() leaves it: the refresh resets it, then the
\* trailing framesCount_++ counts the current frame.
FramesCountAfter(refresh, count) ==
    (IF refresh THEN 0 ELSE count) + 1

\* The two time points subtracted the wrong way round.
FrameDeltaSwapped(current, previous) ==
    DurationCast(previous - current, TicksPerMicro)

\* delta_ of updateTimer(), kept in whole microseconds.
FrameDelta(current, previous) ==
    DurationCast(current - previous, TicksPerMicro)

\* fpsCounterReady_ never reset at the start of an update.
FpsCounterReadySticky(refresh, ready) == ready \/ refresh

\* fpsCounterReady_ of updateTimer(): set to false, then to true by the
\* refreshing branch.
FpsCounterReadyAfter(refresh, ready) ==
    IF refresh THEN TRUE ELSE FALSE

\* Timer::updateTimer(), called when the clock has advanced by d since it
\* was last read.
updateTimerAfter(d) ==
    LET t == now + d
        refresh == FpsWindowElapsed(t, lastFpsCounterUpdatedTime_)
    IN  /\ updates < MaxUpdates
        /\ now' = t
        /\ previousFrameTick_' = currentFrameTick_
        /\ currentFrameTick_' = t
        /\ delta_' = FrameDelta(t, currentFrameTick_)
        /\ fps_' = IF refresh THEN framesCount_ ELSE fps_
        /\ lastFpsCounterUpdatedTime_' =
               IF refresh THEN t ELSE lastFpsCounterUpdatedTime_
        /\ fpsCounterReady_' = FpsCounterReadyAfter(refresh, fpsCounterReady_)
        /\ framesCount_' = FramesCountAfter(refresh, framesCount_)
        /\ refreshes' = refreshes + (IF refresh THEN 1 ELSE 0)
        /\ fpsAssigned' = fpsAssigned + (IF refresh THEN fps_' ELSE 0)
        /\ updates' = updates + 1
        /\ UNCHANGED <<initializationTime_, currentTime>>

\* Timer::updateTimer()
updateTimer == \E d \in ClockSteps : updateTimerAfter(d)

\* The time from init to current, cast to whole microseconds, the other way
\* round.
ElapsedReversed(current, init) ==
    DurationCast(init - current, TicksPerMicro)

\* duration_cast<microseconds>(currentFrameTick_ - initializationTime_)
Elapsed(current, init) ==
    DurationCast(current - init, TicksPerMicro)

\* Timer::getCurrentTime(): reads two members, returns the microseconds
\* between them (as float seconds in the code).
getCurrentTime ==
    /\ currentTime' = Elapsed(currentFrameTick_, initializationTime_)
    /\ UNCHANGED <<currentFrameTick_, previousFrameTick_,
                   lastFpsCounterUpdatedTime_, initializationTime_,
                   framesCount_, fps_, fpsCounterReady_, delta_, now,
                   updates, refreshes,
                   fpsAssigned>>


(***************************************************************************)
(* Arithmetic of tools::Camera.  A real number x is the integer x * Fix;   *)
(* a vec3 is a triple, a mat4 a tuple of four columns (m[col][row], as in  *)
(* glm), a mat3 a tuple of three columns.  Angles are whole degrees,       *)
(* multiples of 90, whose sines and cosines are exact.                     *)
(***************************************************************************)
\* The fixed-point scale: halves are representable (a deltaTime of 0.5).
Fix == 2

FixMul(a, b) == (a * b) \div Fix

Axes == 1..3

eAxisX == 1

eAxisY == 2

eAxisZ == 3

Vec3Add(a, b) == <<a[1] + b[1], a[2] + b[2], a[3] + b[3]>>

\* vec3 * float
Vec3Scale(v, f) == <<FixMul(v[1], f), FixMul(v[2], f), FixMul(v[3], f)>>

Identity4 ==
    <<<<Fix, 0, 0, 0>>, <<0, Fix, 0, 0>>, <<0, 0, Fix, 0>>, <<0, 0, 0, Fix>>>>

\* mat4 * mat4
Mat4Mul(a, b) ==
    LET e(c, r) == FixMul(a[1][r], b[c][1]) + FixMul(a[2][r], b[c][2])
                   + FixMul(a[3][r], b[c][3]) + FixMul(a[4][r], b[c][4])
        col(c) == <<e(c, 1), e(c, 2), e(c, 3), e(c, 4)>>
    IN  <<col(1), col(2), col(3), col(4)>>

\* mat3 * vec3
Mat3MulVec(m, v) ==
    LET e(r) == FixMul(m[1][r], v[1]) + FixMul(m[2][r], v[2])
                + FixMul(m[3][r], v[3])
    IN  <<e(1), e(2), e(3)>>

\* The upper-left 3x3 block of a mat4.
Mat3Of(m) ==
    LET col(c) == <<m[c][1], m[c][2], m[c][3]>>
    IN  <<col(1), col(2), col(3)>>

\* glm::mat4(mat3): the block completed by the identity.
Mat4Of(m) ==
    LET col(c) == <<m[c][1], m[c][2], m[c][3], 0>>
    IN  <<col(1), col(2), col(3), <<0, 0, 0, Fix>>>>

\* glm::translate(m, v): Result[3] = m[0]*v[0] + m[1]*v[1] + m[2]*v[2] + m[3]
GlmTranslate(m, v) ==
    LET e(r) == FixMul(m[1][r], v[1]) + FixMul(m[2][r], v[2])
                + FixMul(m[3][r], v[3]) + m[4][r]
    IN  <<m[1], m[2], m[3], <<e(1), e(2), e(3), e(4)>>>>

\* The 3x3 determinant of m without column c and row r.
Minor(m, c, r) ==
    LET cs == <<IF c <= 1 THEN 2 ELSE 1, IF c <= 2 THEN 3 ELSE 2,
                IF c <= 3 THEN 4 ELSE 3>>
        rs == <<IF r <= 1 THEN 2 ELSE 1, IF r <= 2 THEN 3 ELSE 2,
                IF r <= 3 THEN 4 ELSE 3>>
        e(i, j) == m[cs[i]][rs[j]]
    IN  e(1, 1) * (e(2, 2) * e(3, 3) - e(3, 2) * e(2, 3))
        - e(2, 1) * (e(1, 2) * e(3, 3) - e(3, 2) * e(1, 3))
        + e(3, 1) * (e(1, 2) * e(2, 3) - e(2, 2) * e(1, 3))

Cofactor(m, c, r) ==
    IF (c + r) % 2 = 0 THEN Minor(m, c, r) ELSE -Minor(m, c, r)

Determinant(m) ==
    m[1][1] * Cofactor(m, 1, 1) + m[1][2] * Cofactor(m, 1, 2)
    + m[1][3] * Cofactor(m, 1, 3) + m[1][4] * Cofactor(m, 1, 4)

\* glm::inverse(mat4): the transposed cofactors times 1 / determinant.  With
\* entries scaled by Fix the cofactors carry Fix^3 and the determinant Fix^4.
GlmInverse(m) ==
    LET det == Determinant(m)
        e(c, r) == (Fix * Fix * Cofactor(m, r, c)) \div det
        col(c) == <<e(c, 1), e(c, 2), e(c, 3), e(c, 4)>>
    IN  <<col(1), col(2), col(3), col(4)>>

\* Numbers a + b*sqrt(2), as <<a, b>>.
SInt(n) == <<n, 0>>

SAdd(x, y) == <<x[1] + y[1], x[2] + y[2]>>

SSub(x, y) == <<x[1] - y[1], x[2] - y[2]>>

SMul(x, y) == <<x[1] * y[1] + 2 * x[2] * y[2], x[1] * y[2] + x[2] * y[1]>>

\* 2 * cos(radians(deg) * 0.5) and 2 * sin(radians(deg) * 0.5).
CosHalf2(deg) ==
    LET k == (deg \div 90) % 8
    IN  <<SInt(2), <<0, 1>>, SInt(0), <<0, -1>>,
          SInt(-2), <<0, -1>>, SInt(0), <<0, 1>>>>[k + 1]

SinHalf2(deg) ==
    LET k == (deg \div 90) % 8
    IN  <<SInt(0), <<0, 1>>, SInt(2), <<0, 1>>,
          SInt(0), <<0, -1>>, SInt(-2), <<0, -1>>>>[k + 1]

\* cos(radians(deg)) and sin(radians(deg)), fixed-point.
CosDeg(deg) == Fix * <<1, 0, -1, 0>>[((deg \div 90) % 4) + 1]

SinDeg(deg) == Fix * <<0, 1, 0, -1>>[((deg \div 90) % 4) + 1]

\* glm::quat(glm::vec3(radians(x), radians(y), radians(z))): the quaternion of
\* the Euler angles o (degrees), each component times 8.
QuatFromEuler(o) ==
    LET cx == CosHalf2(o[1])  cy == CosHalf2(o[2])  cz == CosHalf2(o[3])
        sx == SinHalf2(o[1])  sy == SinHalf2(o[2])  sz == SinHalf2(o[3])
    IN  [w |-> SAdd(SMul(SMul(cx, cy), cz), SMul(SMul(sx, sy), sz)),
         x |-> SSub(SMul(SMul(sx, cy), cz), SMul(SMul(cx, sy), sz)),
         y |-> SAdd(SMul(SMul(cx, sy), cz), SMul(SMul(sx, cy), sz)),
         z |-> SSub(SMul(SMul(cx, cy), sz), SMul(SMul(sx, sy), cz))]

\* glm::toMat3(q) = mat3_cast(q), before rounding: each entry times 64, as a
\* number a + b*sqrt(2).
Mat3CastExact(q) ==
    LET qxx == SMul(q.x, q.x)  qyy == SMul(q.y, q.y)  qzz == SMul(q.z, q.z)
        qxz == SMul(q.x, q.z)  qxy == SMul(q.x, q.y)  qyz == SMul(q.y, q.z)
        qwx == SMul(q.w, q.x)  qwy == SMul(q.w, q.y)  qwz == SMul(q.w, q.z)
        one == SInt(64)
        twice(e) == SAdd(e, e)
    IN  << <<SSub(one, twice(SAdd(qyy, qzz))), twice(SAdd(qxy, qwz)),
             twice(SSub(qxz, qwy))>>,
           <<twice(SSub(qxy, qwz)), SSub(one, twice(SAdd(qxx, qzz))),
             twice(SAdd(qyz, qwx))>>,
           <<twice(SAdd(qxz, qwy)), twice(SSub(qyz, qwx)),
             SSub(one, twice(SAdd(qxx, qyy)))>> >>

\* glm::toMat3(q), fixed-point.
Mat3Cast(q) ==
    LET m == Mat3CastExact(q)
        col(c) == <<(Fix * m[c][1][1]) \div 64, (Fix * m[c][2][1]) \div 64,
                    (Fix * m[c][3][1]) \div 64>>
    IN  <<col(1), col(2), col(3)>>

\* glm::rotate(m, radians(deg), axis) for a coordinate axis: m * Rotate.
GlmRotate(m, deg, axis) ==
    LET c == CosDeg(deg)
        s == SinDeg(deg)
        a == <<IF axis = eAxisX THEN Fix ELSE 0,
               IF axis = eAxisY THEN Fix ELSE 0,
               IF axis = eAxisZ THEN Fix ELSE 0>>
        temp == Vec3Scale(a, Fix - c)
        rot == << <<c + FixMul(temp[1], a[1]),
                    FixMul(temp[1], a[2]) + FixMul(s, a[3]),
                    FixMul(temp[1], a[3]) - FixMul(s, a[2])>>,
                  <<FixMul(temp[2], a[1]) - FixMul(s, a[3]),
                    c + FixMul(temp[2], a[2]),
                    FixMul(temp[2], a[3]) + FixMul(s, a[1])>>,
                  <<FixMul(temp[3], a[1]) + FixMul(s, a[2]),
                    FixMul(temp[3], a[2]) - FixMul(s, a[1]),
                    c + FixMul(temp[3], a[3])>> >>
        e(j, r) == FixMul(m[1][r], rot[j][1]) + FixMul(m[2][r], rot[j][2])
                   + FixMul(m[3][r], rot[j][3])
        col(j) == <<e(j, 1), e(j, 2), e(j, 3), e(j, 4)>>
    IN  <<col(1), col(2), col(3), m[4]>>

(***************************************************************************)
(* tools::Camera                                                           *)
(***************************************************************************)
\* The three rotations applied in the opposite order.
makeRotationMatrixReversed(o, r0, r1, r2) ==
    GlmRotate(GlmRotate(GlmRotate(Identity4, o[r2], r2), o[r1], r1), o[r0], r0)

\* Camera::makeRotationMatrix(r0, r1, r2) for the orientation o.
makeRotationMatrix(o, r0, r1, r2) ==
    GlmRotate(GlmRotate(GlmRotate(Identity4, o[r0], r0), o[r1], r1), o[r2], r2)

\* Camera::makeRotationMatrixQuaternion3x3() for the orientation o.
makeRotationMatrixQuaternion3x3(o) == Mat3Cast(QuatFromEuler(o))

\* Camera::makeRotationMatrixQuaternion() for the orientation o.
makeRotationMatrixQuaternion(o) == Mat4Of(Mat3Cast(QuatFromEuler(o)))

\* A view matrix taken as the transpose of the model matrix.
updateViewMatrixTransposed(p, o) ==
    LET model == Mat4Mul(GlmTranslate(Identity4, p),
                         makeRotationMatrixQuaternion(o))
        row(r) == <<model[1][r], model[2][r], model[3][r], model[4][r]>>
    IN  <<row(1), row(2), row(3), row(4)>>

\* Camera::updateModelMatrix(): the new modelMatrix_.
updateModelMatrix(p, o) ==
    Mat4Mul(GlmTranslate(Identity4, p), makeRotationMatrixQuaternion(o))

\* Camera::updateViewMatrix(): the new viewMatrix_.
updateViewMatrix(p, o) ==
    LET model == Mat4Mul(GlmTranslate(Identity4, p),
                         makeRotationMatrixQuaternion(o))
    IN  GlmInverse(model)

Zero3 == <<0, 0, 0>>

Zero4 == <<0, 0, 0, 0>>

ePerspective == 0

eOrthogonal == 1

\* Hundredths times hundredths, in hundredths.
CentiMul(a, b) == (a * b) \div 100

\* A projection that is perspective whatever projectionType_ says.
ProjectionAlwaysPerspective(type, fov, aspect, zNear, zFar) ==
    [glm |-> "perspectiveRH_ZO", args |-> <<fov, aspect, zNear, zFar>>]

\* The projectionMatrix_ of Camera::updateProjectionMatrix(): the glm call
\* the switch selects and its arguments (glm::radians(fov_) is written as
\* fov_, in degrees).
ProjectionOf(type, fov, aspect, zNear, zFar) ==
    CASE type = ePerspective ->
            [glm |-> "perspectiveRH_ZO", args |-> <<fov, aspect, zNear, zFar>>]
      [] type = eOrthogonal ->
            [glm |-> "orthoRH_ZO",
             args |-> <<(-CentiMul(fov, aspect)) \div 2,
                        CentiMul(fov, aspect) \div 2,
                        (-fov) \div 2, fov \div 2, zNear, zFar>>]
      [] OTHER -> [glm |-> "mat4", args |-> <<100>>]

\* glm::inverse(projectionMatrix_)
ProjectionInverseOf(m) == [glm |-> "inverse", args |-> <<m>>]

\* Camera::updateProjectionMatrix() with the parameters given: both
\* matrices are rebuilt.
updateProjectionMatrix(type, fov, aspect, zNear, zFar) ==
    /\ projectionMatrix_' = ProjectionOf(type, fov, aspect, zNear, zFar)
    /\ projectionInverseMatrix_' =
           ProjectionInverseOf(ProjectionOf(type, fov, aspect, zNear, zFar))

\* Both constructors: the fields (zNear 0.01, zFar 1000, aspect 1,
\* perspective; fov 45 unless given), then the three matrix updates.
CameraCtorFov(p, o, fov) ==
    /\ position_ = p
    /\ orientation_ = o
    /\ velocityRel_ = Zero3
    /\ velocity_ = Zero3
    /\ projectionType_ = ePerspective
    /\ zNear_ = 1
    /\ zFar_ = 100000
    /\ fov_ = fov
    /\ aspect_ = 100
    /\ modelMatrix_ = updateModelMatrix(p, o)
    /\ viewMatrix_ = updateViewMatrix(p, o)
    /\ projectionMatrix_ = ProjectionOf(ePerspective, fov, 100, 1, 100000)
    /\ projectionInverseMatrix_ =
           ProjectionInverseOf(ProjectionOf(ePerspective, fov, 100, 1, 100000))

\* Camera(position, orientation), fov defaulted to 45.
CameraCtor(p, o) == CameraCtorFov(p, o, 4500)

\* Camera::setZNear(zNear, updateMatrix)
setZNear(zNear, updateMatrix) ==
    /\ zNear_' = zNear
    /\ IF updateMatrix
       THEN updateProjectionMatrix(projectionType_, fov_, aspect_, zNear, zFar_)
       ELSE UNCHANGED <<projectionMatrix_, projectionInverseMatrix_>>
    /\ UNCHANGED <<projectionType_, zFar_, fov_, aspect_, modelMatrix_,
                   viewMatrix_, position_, orientation_, velocityRel_,
                   velocity_>>

\* Camera::setZFar(zFar, updateMatrix)
setZFar(zFar, updateMatrix) ==
    /\ zFar_' = zFar
    /\ IF updateMatrix
       THEN updateProjectionMatrix(projectionType_, fov_, aspect_, zNear_, zFar)
       ELSE UNCHANGED <<projectionMatrix_, projectionInverseMatrix_>>
    /\ UNCHANGED <<projectionType_, zNear_, fov_, aspect_, modelMatrix_,
                   viewMatrix_, position_, orientation_, velocityRel_,
                   velocity_>>

\* Camera::setProjectionType(projectionType, updateMatrix)
setProjectionType(projectionType, updateMatrix) ==
    /\ projectionType_' = projectionType
    /\ IF updateMatrix
       THEN updateProjectionMatrix(projectionType, fov_, aspect_, zNear_, zFar_)
       ELSE UNCHANGED <<projectionMatrix_, projectionInverseMatrix_>>
    /\ UNCHANGED <<zNear_, zFar_, fov_, aspect_, modelMatrix_, viewMatrix_,
                   position_, orientation_, velocityRel_, velocity_>>

\* Camera::setAspect(aspect, updateMatrix)
setAspect(aspect, updateMatrix) ==
    /\ aspect_' = aspect
    /\ IF updateMatrix
       THEN updateProjectionMatrix(projectionType_, fov_, aspect, zNear_, zFar_)
       ELSE UNCHANGED <<projectionMatrix_, projectionInverseMatrix_>>
    /\ UNCHANGED <<projectionType_, zNear_, zFar_, fov_, modelMatrix_,
                   viewMatrix_, position_, orientation_, velocityRel_,
                   velocity_>>

\* Camera::setFov(fov, updateMatrix)
setFov(fov, updateMatrix) ==
    /\ fov_' = fov
    /\ IF updateMatrix
       THEN updateProjectionMatrix(projectionType_, fov, aspect_, zNear_, zFar_)
       ELSE UNCHANGED <<projectionMatrix_, projectionInverseMatrix_>>
    /\ UNCHANGED <<projectionType_, zNear_, zFar_, aspect_, modelMatrix_,
                   viewMatrix_, position_, orientation_, velocityRel_,
                   velocity_>>

\* A setter that recomputes the matrices whatever its flag says.
MatrixAfterAlways(updateMatrices, held, recomputed) == recomputed

\* A matrix after `if(updateMatrices){ update...Matrix(); }`.
MatrixAfter(updateMatrices, held, recomputed) ==
    IF updateMatrices THEN recomputed ELSE held

\* Camera::setPosition(position, updateMatrices)
setPosition(p, updateMatrices) ==
    /\ position_' = p
    /\ viewMatrix_' =
           MatrixAfter(updateMatrices, viewMatrix_,
                       updateViewMatrix(p, orientation_))
    /\ modelMatrix_' =
           MatrixAfter(updateMatrices, modelMatrix_,
                       updateModelMatrix(p, orientation_))
    /\ UNCHANGED <<orientation_, velocityRel_, velocity_, projectionVars>>

\* Camera::setOrientation(orientation, updateMatrices)
setOrientation(o, updateMatrices) ==
    /\ orientation_' = o
    /\ viewMatrix_' =
           MatrixAfter(updateMatrices, viewMatrix_,
                       updateViewMatrix(position_, o))
    /\ modelMatrix_' =
           MatrixAfter(updateMatrices, modelMatrix_,
                       updateModelMatrix(position_, o))
    /\ UNCHANGED <<position_, velocityRel_, velocity_, projectionVars>>

\* Camera::setVelocityRel(velocity)
setVelocityRel(v) ==
    /\ velocityRel_' = v
    /\ UNCHANGED <<position_, orientation_, velocity_, modelMatrix_,
                   viewMatrix_, projectionVars>>

\* Camera::setVelocity(velocity)
setVelocity(v) ==
    /\ velocity_' = v
    /\ UNCHANGED <<position_, orientation_, velocityRel_, modelMatrix_,
                   viewMatrix_, projectionVars>>

\* Camera::getVelocityRel()
getVelocityRel == velocityRel_

\* Camera::getVelocity(): its body is `return velocityRel_;`
getVelocity == velocityRel_

\* A placement that moves by velocityRel_ in world space and by velocity_ in
\* the camera's space.
PlacedPositionSwapped(p, o, v, vRel, deltaTime) ==
    Vec3Add(Vec3Add(p, Vec3Scale(vRel, deltaTime)),
            Vec3Scale(Mat3MulVec(makeRotationMatrixQuaternion3x3(o), v),
                      deltaTime))

\* A placement that moves by the velocities whatever deltaTime is.
PlacedPositionUnitStep(p, o, v, vRel, deltaTime) ==
    Vec3Add(Vec3Add(p, Vec3Scale(v, Fix)),
            Vec3Scale(Mat3MulVec(makeRotationMatrixQuaternion3x3(o), vRel),
                      Fix))

\* position_ after the two += of Camera::updatePlacement(deltaTime).
PlacedPosition(p, o, v, vRel, deltaTime) ==
    Vec3Add(Vec3Add(p, Vec3Scale(v, deltaTime)),
            Vec3Scale(Mat3MulVec(makeRotationMatrixQuaternion3x3(o), vRel),
                      deltaTime))

InCube(p) == \A i \in Axes : -MaxPos <= p[i] /\ p[i] <= MaxPos

\* Camera::updatePlacement(deltaTime), while the camera stays in the cube.
updatePlacement(deltaTime) ==
    LET p == PlacedPosition(position_, orientation_, velocity_, velocityRel_,
                            deltaTime)
    IN  /\ InCube(p)
        /\ position_' = p
        /\ modelMatrix_' = updateModelMatrix(p, orientation_)
        /\ viewMatrix_' = updateViewMatrix(p, orientation_)
        /\ UNCHANGED <<orientation_, velocityRel_, velocity_, projectionVars>>

\* The two builders of a rotation matrix, called on the camera's orientation.
BuildRotations(r0, r1, r2) ==
    /\ rotAxes' = <<r0, r1, r2>>
    /\ rotEuler' = makeRotationMatrix(orientation_, r0, r1, r2)
    /\ rotQuat' = makeRotationMatrixQuaternion(orientation_)

(***************************************************************************)
(* tools::Primitive and its std140 encoder.  A float is written as its     *)
(* value in hundredths; a buffer's store is the sequence of its bytes,    *)
(* the byte at offset i being its element i + 1.                           *)
(***************************************************************************)
PRIMITIVE_SIZE == 128

MAX_PRIMITIVES == 10

\* Primitive::Type
eSphere == 1

ePlane == 2

eRectangle == 3

eBox == 4

\* Primitive::MaterialType
eLightEmitter == 0

eLambert == 1

eMetal == 2

eDielectric == 3

\* The four bytes of a GLint or GLuint in memory (little-endian).
Int32Bytes(n) ==
    <<n % 256, (n \div 256) % 256, (n \div 65536) % 256,
      (n \div 16777216) % 256>>

\* The four bytes of a GLfloat in memory (IEEE 754 binary32, little-endian),
\* for the floats of the program's and the model's primitives, given in
\* hundredths.
Float32Bytes(hundredths) ==
    CASE hundredths = 0 -> <<0, 0, 0, 0>>
      [] hundredths = 5 -> <<205, 204, 76, 61>>
      [] hundredths = 10 -> <<205, 204, 204, 61>>
      [] hundredths = 12 -> <<143, 194, 245, 61>>
      [] hundredths = 15 -> <<154, 153, 25, 62>>
      [] hundredths = 20 -> <<205, 204, 76, 62>>
      [] hundredths = 30 -> <<154, 153, 153, 62>>
      [] hundredths = 45 -> <<102, 102, 230, 62>>
      [] hundredths = 50 -> <<0, 0, 0, 63>>
      [] hundredths = 65 -> <<102, 102, 38, 63>>
      [] hundredths = 80 -> <<205, 204, 76, 63>>
      [] hundredths = 100 -> <<0, 0, 128, 63>>
      [] hundredths = 150 -> <<0, 0, 192, 63>>
      [] hundredths = 200 -> <<0, 0, 0, 64>>
      [] hundredths = 250 -> <<0, 0, 32, 64>>
      [] hundredths = 300 -> <<0, 0, 64, 64>>
      [] hundredths = 495 -> <<102, 102, 158, 64>>
      [] hundredths = 500 -> <<0, 0, 160, 64>>
      [] hundredths = 1500 -> <<0, 0, 112, 65>>
      [] hundredths = 9000 -> <<0, 0, 180, 66>>
      [] hundredths = -100 -> <<0, 0, 128, 191>>
      [] hundredths = -200 -> <<0, 0, 0, 192>>
      [] hundredths = -295 -> <<205, 204, 60, 192>>
      [] hundredths = -300 -> <<0, 0, 64, 192>>
      [] hundredths = -345 -> <<205, 204, 92, 192>>
      [] hundredths = -395 -> <<205, 204, 124, 192>>
      [] hundredths = -500 -> <<0, 0, 160, 192>>

\* glm::value_ptr(v): the floats of a vec2 or vec3, one after the other.
VecBytes(v) ==
    IF Len(v) = 2
    THEN Float32Bytes(v[1]) \o Float32Bytes(v[2])
    ELSE Float32Bytes(v[1]) \o Float32Bytes(v[2]) \o Float32Bytes(v[3])

BufferSize == PRIMITIVE_SIZE * MAX_PRIMITIVES

\* An update that skips data whose bytes are all zero.
BufferSubDataSkipZero(buf, offset, size, data) ==
    IF offset < 0 \/ offset + size > Len(buf)
          \/ \A j \in 1..size : data[j] = 0
    THEN buf
    ELSE SubSeq(buf, 1, offset) \o SubSeq(data, 1, size)
         \o SubSeq(buf, offset + size + 1, Len(buf))

\* glBufferSubData(GL_UNIFORM_BUFFER, offset, size, data) on the bound
\* buffer's store: a range that leaves the store is GL_INVALID_VALUE and
\* writes nothing.
BufferSubData(buf, offset, size, data) ==
    IF offset < 0 \/ offset + size > Len(buf)
    THEN buf
    ELSE SubSeq(buf, 1, offset) \o SubSeq(data, 1, size)
         \o SubSeq(buf, offset + size + 1, Len(buf))

\* The advances with the padding after the position left out.
AdvancesNoPadding == <<16, 12, 12, 4, 16, 16, 12, 4, 12, 4>>

\* The "offset += n" of updateUniformBufferStd140, in order.
Advances == <<16, 16, 12, 4, 16, 16, 12, 4, 12, 4>>

\* The offset of the n-th glBufferSubData of updateUniformBufferStd140.
RECURSIVE FieldOffset(_, _)
FieldOffset(offset, n) ==
    IF n = 1 THEN offset ELSE FieldOffset(offset, n - 1) + Advances[n - 1]

\* Primitive::updateUniformBufferStd140(...): the buffer's store afterwards.
updateUniformBufferStd140(type, position, orientation, sphereRadius, planeNormal, rectSizes, boxSizes, materialInfo, buf, offset) ==
    LET b1 == BufferSubData(buf, FieldOffset(offset, 1), 4, Int32Bytes(type))
        b2 == BufferSubData(b1, FieldOffset(offset, 2), 12, VecBytes(position))
        b3 == BufferSubData(b2, FieldOffset(offset, 3), 12,
                            VecBytes(orientation))
        b4 == BufferSubData(b3, FieldOffset(offset, 4), 4,
                            Float32Bytes(sphereRadius))
        b5 == BufferSubData(b4, FieldOffset(offset, 5), 12,
                            VecBytes(planeNormal))
        b6 == BufferSubData(b5, FieldOffset(offset, 6), 8, VecBytes(rectSizes))
        b7 == BufferSubData(b6, FieldOffset(offset, 7), 12, VecBytes(boxSizes))
        b8 == BufferSubData(b7, FieldOffset(offset, 8), 4,
                            Int32Bytes(materialInfo.type))
        b9 == BufferSubData(b8, FieldOffset(offset, 9), 12,
                            VecBytes(materialInfo.albedo))
        b10 == BufferSubData(b9, FieldOffset(offset, 10), 4,
                             Float32Bytes(materialInfo.roughness))
    IN  BufferSubData(b10, FieldOffset(offset, 11), 4,
                      Float32Bytes(materialInfo.refraction))

\* Primitive::MaterialInfo
MaterialInfo(type, albedo, roughness, refraction) ==
    [type |-> type, albedo |-> albedo, roughness |-> roughness,
     refraction |-> refraction]

\* The constructors.  A primitive carries the members of its class; the
\* members of the other classes are 0 and never read.
PrimitiveSphere(position, radius, materialInfo) ==
    [class |-> "PrimitiveSphere", position_ |-> position,
     orientation_ |-> Zero3, materialInfo_ |-> materialInfo,
     radius_ |-> radius, normal_ |-> Zero3, sizes_ |-> <<0, 0>>]

PrimitivePlane(position, normal, materialInfo) ==
    [class |-> "PrimitivePlane", position_ |-> position,
     orientation_ |-> Zero3, materialInfo_ |-> materialInfo,
     radius_ |-> 0, normal_ |-> normal, sizes_ |-> <<0, 0>>]

PrimitiveRectangle(position, orientation, sizes, materialInfo) ==
    [class |-> "PrimitiveRectangle", position_ |-> position,
     orientation_ |-> orientation, materialInfo_ |-> materialInfo,
     radius_ |-> 0, normal_ |-> Zero3, sizes_ |-> sizes]

\* A slot stride that leaves out the trailing padding of a slot.
SlotOffsetPacked(index) == index * (PRIMITIVE_SIZE - 12)

\* index * PRIMITIVE_SIZE
SlotOffset(index) == index * PRIMITIVE_SIZE

\* An encoder that takes the first free slot at or after index (a slot whose
\* type tag is no Primitive::Type) instead of slot index.
writeToUniformBufferAppending(p, buf, index) ==
    LET free(k) == \A t \in {eSphere, ePlane, eRectangle, eBox} :
                       SubSeq(buf, SlotOffset(k) + 1, SlotOffset(k) + 4)
                       # Int32Bytes(t)
        k == IF free(index) \/ index + 1 >= MAX_PRIMITIVES
             THEN index ELSE index + 1
        type == CASE p.class = "PrimitiveSphere" -> eSphere
                  [] p.class = "PrimitivePlane" -> ePlane
                  [] p.class = "PrimitiveRectangle" -> eRectangle
    IN  updateUniformBufferStd140(
            type, p.position_, p.orientation_, p.radius_, p.normal_,
            p.sizes_, Zero3, p.materialInfo_, buf, SlotOffset(k))

\* An encoder that writes only the members the class of p has and leaves the
\* shape fields of the other classes as they are in the buffer.
writeToUniformBufferOwnFields(p, buf, index) ==
    LET o == SlotOffset(index)
        m == p.materialInfo_
        b2 == BufferSubData(buf, o + 16, 12, VecBytes(p.position_))
        b3 == BufferSubData(b2, o + 32, 12, VecBytes(p.orientation_))
        b4 == CASE p.class = "PrimitiveSphere" ->
                      BufferSubData(BufferSubData(b3, o, 4, Int32Bytes(eSphere)),
                                    o + 44, 4, Float32Bytes(p.radius_))
                 [] p.class = "PrimitivePlane" ->
                      BufferSubData(BufferSubData(b3, o, 4, Int32Bytes(ePlane)),
                                    o + 48, 12, VecBytes(p.normal_))
                 [] p.class = "PrimitiveRectangle" ->
                      BufferSubData(BufferSubData(b3, o, 4, Int32Bytes(eRectangle)),
                                    o + 64, 8, VecBytes(p.sizes_))
        b5 == BufferSubData(b4, o + 92, 4, Int32Bytes(m.type))
        b6 == BufferSubData(b5, o + 96, 12, VecBytes(m.albedo))
        b7 == BufferSubData(b6, o + 108, 4, Float32Bytes(m.roughness))
    IN  BufferSubData(b7, o + 112, 4, Float32Bytes(m.refraction))

\* An encoder whose rectangle is written with the tag of a box.
writeToUniformBufferRectangleAsBox(p, buf, index) ==
    CASE p.class = "PrimitiveSphere" ->
            updateUniformBufferStd140(
                eSphere, p.position_, p.orientation_, p.radius_, Zero3,
                <<0, 0>>, Zero3, p.materialInfo_, buf, SlotOffset(index))
      [] p.class = "PrimitivePlane" ->
            updateUniformBufferStd140(
                ePlane, p.position_, p.orientation_, 0, p.normal_,
                <<0, 0>>, Zero3, p.materialInfo_, buf, SlotOffset(index))
      [] p.class = "PrimitiveRectangle" ->
            updateUniformBufferStd140(
                eBox, p.position_, p.orientation_, 0, Zero3,
                p.sizes_, Zero3, p.materialInfo_, buf, SlotOffset(index))

\* The virtual writeToUniformBuffer(bufferId, index) of the primitive p: the
\* store of the buffer afterwards.
writeToUniformBuffer(p, buf, index) ==
    CASE p.class = "PrimitiveSphere" ->
            updateUniformBufferStd140(
                eSphere, p.position_, p.orientation_, p.radius_, Zero3,
                <<0, 0>>, Zero3, p.materialInfo_, buf, SlotOffset(index))
      [] p.class = "PrimitivePlane" ->
            updateUniformBufferStd140(
                ePlane, p.position_, p.orientation_, 0, p.normal_,
                <<0, 0>>, Zero3, p.materialInfo_, buf, SlotOffset(index))
      [] p.class = "PrimitiveRectangle" ->
            updateUniformBufferStd140(
                eRectangle, p.position_, p.orientation_, 0, Zero3,
                p.sizes_, Zero3, p.materialInfo_, buf, SlotOffset(index))

\* A call p->writeToUniformBuffer(g_uboPrimitives, index).
Encode(p, index) ==
    uboPrimitives' = writeToUniformBuffer(p, uboPrimitives, index)

\* n bytes, all g.
RECURSIVE Filled(_, _)
Filled(n, g) ==
    IF n = 0 THEN <<>>
    ELSE LET half == Filled(n \div 2, g)
         IN  IF n % 2 = 0 THEN half \o half ELSE Append(half \o half, g)

\* What an uninitialised byte of a fresh buffer store may hold.
GarbageBytes == {0, 170}

\* InitOpenGl: glBufferData(..., PRIMITIVE_SIZE * MAX_PRIMITIVES, nullptr,
\* ...) leaves the content of the store undefined.
BufferAllocated ==
    \E g \in GarbageBytes : uboPrimitives = Filled(BufferSize, g)

(***************************************************************************)
(* main() of 01_Basic: scene setup, then the frame loop.                   *)
(***************************************************************************)
\* The materials of the scene (roughness and refraction default to 1.0 and
\* 1.5).
lambertWhite == MaterialInfo(eLambert, <<100, 100, 100>>, 100, 150)

lambertRed == MaterialInfo(eLambert, <<65, 5, 5>>, 100, 150)

lambertGreen == MaterialInfo(eLambert, <<12, 45, 15>>, 100, 150)

lambertBlue == MaterialInfo(eLambert, <<10, 20, 50>>, 100, 150)

metal == MaterialInfo(eMetal, <<80, 80, 80>>, 20, 150)

glass == MaterialInfo(eDielectric, <<100, 100, 100>>, 0, 150)

light == MaterialInfo(eLightEmitter, <<1500, 1500, 1500>>, 100, 150)

\* The primitives main() creates, in the order of the push_back calls.
ScenePrimitives ==
    << PrimitivePlane(<<0, 500, 0>>, <<0, -100, 0>>, lambertWhite),
       PrimitivePlane(<<0, -500, 0>>, <<0, 100, 0>>, lambertWhite),
       PrimitivePlane(<<0, 0, -500>>, <<0, 0, 100>>, lambertWhite),
       PrimitivePlane(<<-500, 0, 0>>, <<100, 0, 0>>, lambertRed),
       PrimitivePlane(<<500, 0, 0>>, <<-100, 0, 0>>, lambertGreen),
       PrimitiveSphere(<<0, -295, -100>>, 200, metal),
       PrimitiveSphere(<<-200, -395, 250>>, 100, lambertBlue),
       PrimitiveSphere(<<250, -345, 300>>, 150, glass),
       PrimitiveRectangle(<<0, 495, 0>>, <<9000, 0, 0>>, <<300, 300>>, light) >>

\* The window, then g_hglrc = OpenGlCreateContext(g_hdc) and wglMakeCurrent:
\* RegisterClassEx, CreateWindow, the pixel format or wglCreateContext may
\* fail with an exception, which main() catches.
OpenGlCreateContext ==
    /\ pc = "OpenGlCreateContext"
    /\ \/ /\ pc' = "cleanup"
          /\ UNCHANGED glContext
       \/ /\ pc' = "InitOpenGl"
          /\ glContext' = "current"
    /\ UNCHANGED <<timerVars, cameraVars, rotVars, uboPrimitives, g_primitives,
                   encodeIndex, uboCommonSettings, frameOps, placementDelta,
                   shaderUniforms, glLoaded, wrapVars>>

\* InitOpenGl(): GLAD may fail to load the functions, or the shader program
\* to build, with an exception; otherwise both uniform buffers are allocated,
\* their content undefined.
InitOpenGl ==
    /\ pc = "InitOpenGl"
    /\ \/ /\ pc' = "cleanup"
          /\ UNCHANGED <<uboPrimitives, uboCommonSettings, glLoaded>>
       \/ /\ pc' = "cleanup"
          /\ glLoaded' = TRUE
          /\ UNCHANGED <<uboPrimitives, uboCommonSettings>>
       \/ /\ pc' = "newCamera"
          /\ glLoaded' = TRUE
          /\ \E g \in GarbageBytes : uboCommonSettings' = Filled(16, g)
          /\ \E g \in GarbageBytes : uboPrimitives' = Filled(BufferSize, g)
    /\ UNCHANGED <<timerVars, cameraVars, rotVars, g_primitives, encodeIndex,
                   frameOps, placementDelta, shaderUniforms, glContext,
                   wrapVars>>

\* g_camera = new tools::Camera({0.0f,0.0f,10.0f},{0.0f,0.0f,0.0f})
NewCamera ==
    /\ pc = "newCamera"
    /\ position_' = <<0, 0, 10 * Fix>>
    /\ orientation_' = Zero3
    /\ velocityRel_' = Zero3
    /\ velocity_' = Zero3
    /\ modelMatrix_' = updateModelMatrix(position_', orientation_')
    /\ viewMatrix_' = updateViewMatrix(position_', orientation_')
    /\ projectionType_' = ePerspective
    /\ zNear_' = 1
    /\ zFar_' = 100000
    /\ fov_' = 4500
    /\ aspect_' = 100
    /\ updateProjectionMatrix(ePerspective, 4500, 100, 1, 100000)
    /\ pc' = "push_back"
    /\ UNCHANGED <<timerVars, rotVars, uboPrimitives, g_primitives,
                   encodeIndex, uboCommonSettings, frameOps, placementDelta,
                   shaderUniforms, glVars,
                   wrapVars>>

\* g_primitives.push_back(new ...), nine times.
PushBack ==
    /\ pc = "push_back"
    /\ g_primitives' =
           Append(g_primitives, ScenePrimitives[Len(g_primitives) + 1])
    /\ pc' = IF Len(g_primitives') = Len(ScenePrimitives)
             THEN "encode" ELSE "push_back"
    /\ encodeIndex' = 0
    /\ UNCHANGED <<timerVars, cameraVars, rotVars, uboPrimitives,
                   uboCommonSettings, frameOps, placementDelta,
                   shaderUniforms, glVars,
                   wrapVars>>

\* One count too few written to the header.
updatePrimitiveCountOffByOne(buf, totalPrimitives) ==
    BufferSubData(buf, 0, 4, Int32Bytes(totalPrimitives - 1))

\* updatePrimitiveCount(totalPrimitives): the store of g_uboCommonSettings
\* afterwards.
updatePrimitiveCount(buf, totalPrimitives) ==
    BufferSubData(buf, 0, 4, Int32Bytes(totalPrimitives))

\* An encode loop whose slots start at 2.
EncodeSlotShifted(index) == index + 2

\* The slot index the encode loop passes for g_primitives[index].
EncodeSlot(index) == index

\* for(i = 0; i < g_primitives.size(); i++)
\*     g_primitives[i]->writeToUniformBuffer(g_uboPrimitives, i);
\* and, when the loop is over, updatePrimitiveCount(g_primitives.size()).
EncodeLoop ==
    /\ pc = "encode"
    /\ IF encodeIndex < Len(g_primitives)
       THEN /\ Encode(g_primitives[encodeIndex + 1], EncodeSlot(encodeIndex))
            /\ encodeIndex' = encodeIndex + 1
            /\ UNCHANGED <<pc, uboCommonSettings>>
       ELSE /\ uboCommonSettings' =
                   updatePrimitiveCount(uboCommonSettings, Len(g_primitives))
            /\ pc' = "newTimer"
            /\ UNCHANGED <<uboPrimitives, encodeIndex>>
    /\ UNCHANGED <<timerVars, cameraVars, rotVars, g_primitives, frameOps,
                   placementDelta,
                   shaderUniforms, glVars,
                   wrapVars>>

\* g_timer = new tools::Timer()
NewTimer ==
    /\ pc = "newTimer"
    /\ \E t0 \in StartTicks, d1 \in CtorSteps, d2 \in CtorSteps :
           /\ currentFrameTick_' = t0
           /\ previousFrameTick_' = 0
           /\ lastFpsCounterUpdatedTime_' = t0 + d1
           /\ framesCount_' = 0
           /\ fps_' = 0
           /\ fpsCounterReady_' = FALSE
           /\ delta_' = 0
           /\ initializationTime_' = t0 + d1 + d2
           /\ now' = t0 + d1 + d2
    /\ pc' = "updateTimer"
    /\ UNCHANGED <<updates, refreshes, fpsAssigned, currentTime, cameraVars,
                   rotVars,
                   uboPrimitives, g_primitives, encodeIndex,
                   uboCommonSettings, frameOps, placementDelta,
                   shaderUniforms, glVars,
                   wrapVars>>

\* The keys Controls() asks GetAsyncKeyState about.
ControlKeys == {"W", "A", "S", "D", "SPACE", "C"}

\* The sets of keys Controls() finds down in a frame of main(): none, W
\* (forward), SPACE (up), W with S (S wins: backward), A with C (left, down).
KeyInputs == {{}, {"W"}, {"SPACE"}, {"W", "S"}, {"A", "C"}}

\* A movement vector to which opposite keys add up.
camVelocityRelSummed(keys) ==
    <<(IF "D" \in keys THEN 1 ELSE 0) - (IF "A" \in keys THEN 1 ELSE 0), 0,
      (IF "S" \in keys THEN 1 ELSE 0) - (IF "W" \in keys THEN 1 ELSE 0)>>

\* camVelocityRel after the four if(KEY_DOWN(..)) of W, A, S, D, in whole
\* units: a later assignment to the same component wins.
camVelocityRel(keys) ==
    <<IF "D" \in keys THEN 1 ELSE IF "A" \in keys THEN -1 ELSE 0, 0,
      IF "S" \in keys THEN 1 ELSE IF "W" \in keys THEN -1 ELSE 0>>

\* camVelocityAbs after the if(KEY_DOWN(..)) of SPACE and C, in whole units.
camVelocityAbs(keys) ==
    <<0, IF "C" \in keys THEN -1 ELSE IF "SPACE" \in keys THEN 1 ELSE 0, 0>>

Length2(v) == v[1] * v[1] + v[2] * v[2] + v[3] * v[3]

\* x / sqrt(2), rounded to the nearest fixed-point value.
OverSqrt2(x) ==
    IF x >= 0 THEN (x * 7071 + 5000) \div 10000
    ELSE -(((-x) * 7071 + 5000) \div 10000)

\* (glm::length2(v) > 0 ? glm::normalize(v) : v) * camSpeed, for a vector of
\* whole units and a fixed-point camSpeed.  Exact for a vector along one axis.
NormalizedTimes(v, camSpeed) ==
    CASE Length2(v) = 0 -> Zero3
      [] Length2(v) = 1 -> <<v[1] * camSpeed, v[2] * camSpeed, v[3] * camSpeed>>
      [] OTHER -> <<OverSqrt2(v[1] * camSpeed), OverSqrt2(v[2] * camSpeed),
                    OverSqrt2(v[3] * camSpeed)>>

\* What the clock advances from one iteration of the frame loop to the next:
\* a 60 Hz frame, or a stall of 1001 ms.
FrameSteps == {166670, 1001 * TicksPerMilli}

\* Whether the left button is down, and the mouse's move since the last
\* frame in pixels (x, y; 0.2 degrees each).
MouseInputs == {<<FALSE, 0, 0>>, <<TRUE, 450, 0>>}

\* getDelta() as the camera's fixed-point seconds.
DeltaSeconds(micros) == (micros * Fix) \div 1000000

\* while (true) { g_timer->updateTimer(); ...
LoopUpdateTimer ==
    /\ pc = "updateTimer"
    /\ updates < MaxFrames
    /\ \E d \in FrameSteps : updateTimerAfter(d)
    /\ frameOps' = <<"updateTimer">>
    /\ pc' = "Controls"
    /\ UNCHANGED <<cameraVars, rotVars, uboPrimitives, g_primitives,
                   encodeIndex, uboCommonSettings, placementDelta,
                   shaderUniforms, glVars,
                   wrapVars>>

\* Controls(): camSpeed = 1.5, mouseSensitivity = 0.2.  With the left button
\* down the orientation is turned by the mouse's move (setOrientation, which
\* updates the matrices); then setVelocityRel and setVelocity.
Controls ==
    /\ pc = "Controls"
    /\ \E keys \in KeyInputs, mouse \in MouseInputs :
        LET camSpeed == (3 * Fix) \div 2
            o == IF ~mouse[1] THEN orientation_
                 ELSE <<orientation_[1] + mouse[3] \div 5,
                        orientation_[2] + mouse[2] \div 5,
                        orientation_[3]>>
        IN  /\ orientation_' = o
            /\ viewMatrix_' = IF ~mouse[1] THEN viewMatrix_
                              ELSE updateViewMatrix(position_, o)
            /\ modelMatrix_' = IF ~mouse[1] THEN modelMatrix_
                               ELSE updateModelMatrix(position_, o)
            /\ velocityRel_' = NormalizedTimes(camVelocityRel(keys), camSpeed)
            /\ velocity_' =
                   <<camVelocityAbs(keys)[1] * camSpeed,
                     camVelocityAbs(keys)[2] * camSpeed,
                     camVelocityAbs(keys)[3] * camSpeed>>
    /\ frameOps' = Append(frameOps, "Controls")
    /\ pc' = "PeekMessage"
    /\ UNCHANGED <<timerVars, position_, projectionVars, rotVars,
                   uboPrimitives, g_primitives, encodeIndex,
                   uboCommonSettings, placementDelta,
                   shaderUniforms, glVars,
                   wrapVars>>

\* if (PeekMessage(...)) { DispatchMessage(&msg); if WM_QUIT break; }
PeekMessage ==
    /\ pc = "PeekMessage"
    /\ \E message \in {"none", "WM_PAINT", "WM_QUIT"} :
           pc' = IF message = "WM_QUIT" THEN "cleanup" ELSE "updatePlacement"
    /\ UNCHANGED <<timerVars, cameraVars, rotVars, uboPrimitives,
                   g_primitives, encodeIndex, uboCommonSettings, frameOps,
                   placementDelta,
                   shaderUniforms, glVars,
                   wrapVars>>

\* A getter that returns another member of the Timer.
getDeltaOfFps == fps_

\* Timer::getDelta()
getDelta == delta_

\* g_camera->updatePlacement(g_timer->getDelta())
LoopUpdatePlacement ==
    /\ pc = "updatePlacement"
    /\ placementDelta' = getDelta
    /\ LET p == PlacedPosition(position_, orientation_, velocity_,
                               velocityRel_, DeltaSeconds(getDelta))
       IN  /\ position_' = p
           /\ modelMatrix_' = updateModelMatrix(p, orientation_)
           /\ viewMatrix_' = updateViewMatrix(p, orientation_)
    /\ frameOps' = Append(frameOps, "updatePlacement")
    /\ pc' = "RenderQuad"
    /\ UNCHANGED <<timerVars, orientation_, velocityRel_, velocity_,
                   projectionVars, rotVars, uboPrimitives, g_primitives,
                   encodeIndex, uboCommonSettings, shaderUniforms, glVars,
                   wrapVars>>

\* The fov RenderQuad() hands to the shader: the literal 90.0f, in hundredths.
RenderQuadFov == 9000

\* RenderQuad(): hands the fov, the camera's position and matrices and
\* g_timer->getCurrentTime() to the shader and draws; it writes no uniform
\* buffer.
RenderQuad ==
    /\ pc = "RenderQuad"
    /\ getCurrentTime
    /\ shaderUniforms' = [camFov |-> RenderQuadFov,
                          camPosition |-> position_,
                          viewMatrix |-> viewMatrix_,
                          camModelMatrix |-> modelMatrix_]
    /\ frameOps' = Append(frameOps, "RenderQuad")
    /\ pc' = "SwapBuffers"
    /\ UNCHANGED <<cameraVars, rotVars, uboPrimitives, g_primitives,
                   encodeIndex, uboCommonSettings, placementDelta, glVars,
                   wrapVars>>

\* SwapBuffers(g_hdc): the frame is presented; back to the top of the loop.
SwapBuffers ==
    /\ pc = "SwapBuffers"
    /\ frameOps' = Append(frameOps, "SwapBuffers")
    /\ pc' = "updateTimer"
    /\ UNCHANGED <<timerVars, cameraVars, rotVars, uboPrimitives,
                   g_primitives, encodeIndex, uboCommonSettings,
                   placementDelta,
                   shaderUniforms, glVars,
                   wrapVars>>

\* After the loop, or after an exception: the objects are deleted, then
\* wglMakeCurrent(nullptr, nullptr) and wglDeleteContext(g_hglrc) destroy the
\* OpenGL context, if there is one, and the buffer stores with it.
Cleanup ==
    /\ pc = "cleanup"
    /\ pc' = "ClearOpenGl"
    /\ glContext' = IF glContext = "current" THEN "deleted" ELSE glContext
    /\ uboPrimitives' = <<>>
    /\ uboCommonSettings' = <<>>
    /\ UNCHANGED <<timerVars, cameraVars, rotVars, g_primitives, encodeIndex,
                   frameOps, placementDelta, shaderUniforms, glLoaded,
                   wrapVars>>

\* ClearOpenGl(): glDeleteBuffers and the destructors of g_geometryQuad and
\* g_shaderMain.  An OpenGL call without a current context, or through a
\* function pointer GLAD never loaded, is undefined: it returns or it takes
\* the program down.
ClearOpenGl ==
    /\ pc = "ClearOpenGl"
    /\ \/ pc' = "done"
       \/ /\ ~(glLoaded /\ glContext = "current")
          /\ pc' = "crashed"
    /\ UNCHANGED <<timerVars, cameraVars, rotVars, uboPrimitives, g_primitives,
                   encodeIndex, uboCommonSettings, frameOps, placementDelta,
                   shaderUniforms, glVars,
                   wrapVars>>

(***************************************************************************)
(* The move-only wrappers of gl/: ShaderProgram, Texture2D, GeometryBuffer *)
(* and FrameBuffer.  A handle is an OpenGL name together with its kind,    *)
(* numbered 1, 2, ... in the order the glGen* / glCreateProgram calls hand *)
(* them out; 0 is the name OpenGL never generates.  An object is a record: *)
(* its lifetime, its scalar handle members (id_, or vboId_, eboId_ and     *)
(* vaoId_ of a GeometryBuffer) and, for a FrameBuffer, its two vectors of  *)
(* attachments.                                                            *)
(***************************************************************************)
WrapperClasses == {"ShaderProgram", "Texture2D", "GeometryBuffer", "FrameBuffer"}

Objects == 1..NumObjects

\* The scalar handle members of a class: vboId_, eboId_, vaoId_ or id_
IdCount(class) == IF class = "GeometryBuffer" THEN 3 ELSE 1

Zeros(n) == [j \in 1..n |-> 0]

\* Storage no constructor has run on yet, or whose destructor has run
NoObject(life) == [life |-> life, ids |-> <<>>, textureAttachments_ |-> <<>>, renderBufferAttachments_ |-> <<>>]

\* Before any wrapper is constructed
WrappersAbsent ==
    /\ wrapperClass = "none"
    /\ objects = <<>>
    /\ handlesCreated = 0
    /\ deletions = <<>>

Elements(seq) == {seq[j] : j \in DOMAIN seq}

\* The non-zero handles an object's members hold
Held(obj) == (Elements(obj.ids) \cup Elements(obj.textureAttachments_) \cup Elements(obj.renderBufferAttachments_)) \ {0}

\* The object a move leaves behind, without the zeroing of its members
MovedFromKept(class, other) == other

\* The object a move leaves behind: other.id_ = 0 (other.vboId_, other.eboId_
\* and other.vaoId_ of a GeometryBuffer), and the vectors swapped with empty
\* ones
MovedFrom(class, other) == [life |-> "live", ids |-> Zeros(IdCount(class)), textureAttachments_ |-> <<>>, renderBufferAttachments_ |-> <<>>]

\* glDelete*(...) on the members of obj: if (id_) glDelete...(id_), and
\* glDeleteTextures / glDeleteRenderbuffers over the vectors when not empty
glDeleteHeld(del, obj) == [h \in DOMAIN del |-> del[h] + (IF h \in Held(obj) THEN 1 ELSE 0)]

\* n more names handed out by glGen* / glCreateProgram, none deleted yet.
\* Every construction of the class generates IdCount names and every
\* attachment one, so the quotient counts the generations so far.
glGenNames(n) ==
    /\ handlesCreated \div IdCount(wrapperClass) < MaxGenerations
    /\ handlesCreated' = handlesCreated + n
    /\ deletions' = deletions \o Zeros(n)

\* The constructor that creates the resource: glCreateProgram(),
\* glGenTextures(1, &id_), glGenFramebuffers(1, &id_), or glGenBuffers twice
\* and glGenVertexArrays for a GeometryBuffer
ResourceCtor(this) ==
    /\ objects[this].life = "unborn"
    /\ glGenNames(IdCount(wrapperClass))
    /\ objects' = [objects EXCEPT ![this] = [life |-> "live", ids |-> [j \in 1..IdCount(wrapperClass) |-> handlesCreated + j], textureAttachments_ |-> <<>>, renderBufferAttachments_ |-> <<>>]]
    /\ UNCHANGED wrapperClass

\* FrameBuffer::addTextureAttachment: glGenTextures(1, &id) and push_back
addTextureAttachment(this) ==
    /\ wrapperClass = "FrameBuffer"
    /\ objects[this].life = "live"
    /\ Len(objects[this].textureAttachments_) < MaxAttachments
    /\ glGenNames(1)
    /\ objects' = [objects EXCEPT ![this].textureAttachments_ = Append(@, handlesCreated + 1)]
    /\ UNCHANGED wrapperClass

\* FrameBuffer::addRenderBufferAttachment: glGenRenderbuffers(1, &id) and
\* push_back
addRenderBufferAttachment(this) ==
    /\ wrapperClass = "FrameBuffer"
    /\ objects[this].life = "live"
    /\ Len(objects[this].renderBufferAttachments_) < MaxAttachments
    /\ glGenNames(1)
    /\ objects' = [objects EXCEPT ![this].renderBufferAttachments_ = Append(@, handlesCreated + 1)]
    /\ UNCHANGED wrapperClass

\* The move constructor: the members of other are copied (the vectors
\* swapped in), then zeroed in other
MoveCtor(this, other) ==
    /\ objects[this].life = "unborn"
    /\ objects[other].life = "live"
    /\ objects' = [objects EXCEPT ![this] = objects[other], ![other] = MovedFrom(wrapperClass, objects[other])]
    /\ UNCHANGED <<wrapperClass, handlesCreated, deletions>>

\* Move assignment: nothing on self-assignment; otherwise the object's own
\* resources are deleted and its members zeroed, then swapped with other's
MoveAssign(this, other) ==
    /\ objects[this].life = "live"
    /\ objects[other].life = "live"
    /\ IF this = other
       THEN UNCHANGED <<objects, deletions>>
       ELSE /\ deletions' = glDeleteHeld(deletions, objects[this])
            /\ objects' = [objects EXCEPT ![this] = objects[other], ![other] = MovedFrom(wrapperClass, objects[this])]
    /\ UNCHANGED <<wrapperClass, handlesCreated>>

\* The destructor: the resources the members name are deleted
Dtor(this) ==
    /\ objects[this].life = "live"
    /\ deletions' = glDeleteHeld(deletions, objects[this])
    /\ objects' = [objects EXCEPT ![this] = NoObject("destroyed")]
    /\ UNCHANGED <<wrapperClass, handlesCreated>>

(***************************************************************************)
(* Inputs of the encoder.                                                  *)
(***************************************************************************)
\* The sphere of the specification's round trip (refraction is the default).
SpecSphere ==
    PrimitiveSphere(<<100, 200, 300>>, 250,
                    MaterialInfo(eLambert, <<10, 20, 30>>, 50, 150))

WhitePlane ==
    PrimitivePlane(<<0, 500, 0>>, <<0, -100, 0>>,
                   MaterialInfo(eLambert, <<100, 100, 100>>, 100, 150))

LightRectangle ==
    PrimitiveRectangle(<<0, 500, 0>>, <<9000, 0, 0>>, <<300, 300>>,
                       MaterialInfo(eLightEmitter, <<1500, 1500, 1500>>, 100, 150))

PrimitiveInputs == {SpecSphere, WhitePlane, LightRectangle}

\* Slot indices given to the encoder: the first ones and the last one.
SlotInputs == (0..MaxIndex) \cup {MAX_PRIMITIVES - 1}

(***************************************************************************)
(* Inputs of the camera's operations.                                      *)
(***************************************************************************)
PositionInputs == {Zero3, <<2, -2, 0>>, <<0, 1, -1>>}

OrientationInputs ==
    {Zero3, <<90, 0, 0>>, <<0, -90, 0>>, <<90, 90, 0>>, <<-90, 90, 180>>}

\* Orientations given to the batched setters.
LazyOrientationInputs == {Zero3, <<90, 0, 0>>, <<0, -90, 0>>}

\* World-space velocities: rest and up, (0,1,0).
VelocityInputs == {Zero3, <<0, Fix, 0>>}

\* Camera-space velocities: rest and forward, (0,0,-1).
VelocityRelInputs == {Zero3, <<0, 0, -Fix>>}

\* deltaTime: 0, 0.5 and 1 second.
DeltaInputs == {0, 1, Fix}

\* Euler angles of [-180, 180] whose rotations are exact.
AngleGrid == {-180, -90, 0, 90, 180}

\* Arguments of the projection setters, in hundredths: 45 and 90 degrees,
\* aspect 1 and 2, zNear 0.01 and 0.1, zFar 1000 and 100.
FovInputs == {4500, 9000}

AspectInputs == {100, 200}

ZNearInputs == {1, 10}

ZFarInputs == {100000, 10000}

ProjectionTypeInputs == {ePerspective, eOrthogonal}

(***************************************************************************)
(* Specifications.  Each one runs one component; the others stay as they   *)
(* are before main() constructs them.                                      *)
(***************************************************************************)
TimerAbsent ==
    /\ currentFrameTick_ = 0
    /\ previousFrameTick_ = 0
    /\ lastFpsCounterUpdatedTime_ = 0
    /\ initializationTime_ = 0
    /\ framesCount_ = 0
    /\ fps_ = 0
    /\ fpsCounterReady_ = FALSE
    /\ delta_ = 0
    /\ now = 0
    /\ updates = 0
    /\ refreshes = 0
    /\ fpsAssigned = 0
    /\ currentTime = 0

CameraAbsent ==
    /\ position_ = Zero3
    /\ orientation_ = Zero3
    /\ velocityRel_ = Zero3
    /\ velocity_ = Zero3
    /\ modelMatrix_ = Identity4
    /\ viewMatrix_ = Identity4
    /\ projectionMatrix_ = [glm |-> "mat4", args |-> <<100>>]
    /\ projectionInverseMatrix_ = [glm |-> "mat4", args |-> <<100>>]
    /\ projectionType_ = ePerspective
    /\ zNear_ = 0
    /\ zFar_ = 0
    /\ fov_ = 0
    /\ aspect_ = 0

RotationsNotBuilt ==
    /\ rotAxes = <<>>
    /\ rotEuler = Identity4
    /\ rotQuat = Identity4

BufferAbsent == uboPrimitives = <<>>

\* The uniforms of a program that RenderQuad() has not yet set: OpenGL
\* initialises them to zero.
NoUniforms ==
    [camFov |-> 0, camPosition |-> Zero3,
     viewMatrix |-> <<Zero4, Zero4, Zero4, Zero4>>,
     camModelMatrix |-> <<Zero4, Zero4, Zero4, Zero4>>]

\* main() is not running: the class under study is driven on its own.
MainNotStarted ==
    /\ pc = "none"
    /\ g_primitives = <<>>
    /\ encodeIndex = 0
    /\ uboCommonSettings = <<>>
    /\ frameOps = <<>>
    /\ placementDelta = 0
    /\ shaderUniforms = NoUniforms
    /\ glContext = "none"
    /\ glLoaded = FALSE

\* ---- the Timer alone
TimerInit ==
    /\ TimerCtor
    /\ CameraAbsent
    /\ RotationsNotBuilt
    /\ BufferAbsent
    /\ MainNotStarted
    /\ WrappersAbsent

TimerNext ==
    /\ updateTimer \/ getCurrentTime
    /\ UNCHANGED <<cameraVars, rotVars, uboPrimitives, mainVars, wrapVars>>

SpecTimer == TimerInit /\ [][TimerNext]_vars

\* ---- the Camera alone, every mutator called with updateMatrices = true
CameraInit ==
    /\ \E p \in PositionInputs, o \in OrientationInputs : CameraCtor(p, o)
    /\ TimerAbsent
    /\ RotationsNotBuilt
    /\ BufferAbsent
    /\ MainNotStarted
    /\ WrappersAbsent

CameraNext ==
    /\ \/ \E p \in PositionInputs : setPosition(p, TRUE)
       \/ \E o \in OrientationInputs : setOrientation(o, TRUE)
       \/ \E v \in VelocityRelInputs : setVelocityRel(v)
       \/ \E v \in VelocityInputs : setVelocity(v)
       \/ \E deltaTime \in DeltaInputs : updatePlacement(deltaTime)
    /\ UNCHANGED <<timerVars, rotVars, uboPrimitives, mainVars, wrapVars>>

SpecCamera == CameraInit /\ [][CameraNext]_vars

\* ---- the Camera with batched setters: setPosition and setOrientation with
\* and without the recomputation of the matrices
CameraLazyInit ==
    /\ \E p \in PositionInputs, o \in LazyOrientationInputs : CameraCtor(p, o)
    /\ TimerAbsent
    /\ RotationsNotBuilt
    /\ BufferAbsent
    /\ MainNotStarted
    /\ WrappersAbsent

CameraLazyNext ==
    /\ \/ \E p \in PositionInputs, b \in BOOLEAN : setPosition(p, b)
       \/ \E o \in LazyOrientationInputs, b \in BOOLEAN : setOrientation(o, b)
       \/ \E v \in VelocityInputs : setVelocity(v)
       \/ \E deltaTime \in DeltaInputs : updatePlacement(deltaTime)
    /\ UNCHANGED <<timerVars, rotVars, uboPrimitives, mainVars, wrapVars>>

SpecCameraLazy == CameraLazyInit /\ [][CameraLazyNext]_vars

\* ---- the Camera's projection: the five setters, with and without the
\* update of the matrices, among calls that move the camera
ProjectionInit ==
    /\ \E p \in PositionInputs, fov \in FovInputs : CameraCtorFov(p, Zero3, fov)
    /\ TimerAbsent
    /\ RotationsNotBuilt
    /\ BufferAbsent
    /\ MainNotStarted
    /\ WrappersAbsent

ProjectionNext ==
    /\ \/ \E v \in ZNearInputs, b \in BOOLEAN : setZNear(v, b)
       \/ \E v \in ZFarInputs, b \in BOOLEAN : setZFar(v, b)
       \/ \E v \in ProjectionTypeInputs, b \in BOOLEAN :
              setProjectionType(v, b)
       \/ \E v \in AspectInputs, b \in BOOLEAN : setAspect(v, b)
       \/ \E v \in FovInputs, b \in BOOLEAN : setFov(v, b)
       \/ \E p \in PositionInputs : setPosition(p, TRUE)
       \/ \E o \in {Zero3, <<90, 0, 0>>} : setOrientation(o, TRUE)
       \/ \E deltaTime \in DeltaInputs : updatePlacement(deltaTime)
    /\ UNCHANGED <<timerVars, rotVars, uboPrimitives, mainVars, wrapVars>>

SpecProjection == ProjectionInit /\ [][ProjectionNext]_vars

\* ---- the two rotation builders on every orientation of the grid
RotationInit ==
    /\ \E x \in AngleGrid, y \in AngleGrid, z \in AngleGrid :
           CameraCtor(Zero3, <<x, y, z>>)
    /\ TimerAbsent
    /\ RotationsNotBuilt
    /\ BufferAbsent
    /\ MainNotStarted
    /\ WrappersAbsent

RotationNext ==
    /\ \E r0 \in Axes, r1 \in Axes, r2 \in Axes : BuildRotations(r0, r1, r2)
    /\ UNCHANGED <<timerVars, cameraVars, uboPrimitives, mainVars, wrapVars>>

SpecRotation == RotationInit /\ [][RotationNext]_vars

\* ---- the encoder alone: any primitive into any slot, any number of times
EncoderInit ==
    /\ BufferAllocated
    /\ TimerAbsent
    /\ CameraAbsent
    /\ RotationsNotBuilt
    /\ MainNotStarted
    /\ WrappersAbsent

EncoderNext ==
    /\ \E p \in PrimitiveInputs, index \in SlotInputs : Encode(p, index)
    /\ UNCHANGED <<timerVars, cameraVars, rotVars, mainVars, wrapVars>>

SpecEncoder == EncoderInit /\ [][EncoderNext]_vars

\* ---- main(): from the creation of the window to the end of the program
MainInit ==
    /\ pc = "OpenGlCreateContext"
    /\ g_primitives = <<>>
    /\ encodeIndex = 0
    /\ uboCommonSettings = <<>>
    /\ frameOps = <<>>
    /\ placementDelta = 0
    /\ shaderUniforms = NoUniforms
    /\ glContext = "none"
    /\ glLoaded = FALSE
    /\ TimerAbsent
    /\ CameraAbsent
    /\ RotationsNotBuilt
    /\ BufferAbsent
    /\ WrappersAbsent

MainNext ==
    \/ OpenGlCreateContext
    \/ InitOpenGl
    \/ NewCamera
    \/ PushBack
    \/ EncodeLoop
    \/ NewTimer
    \/ LoopUpdateTimer
    \/ Controls
    \/ PeekMessage
    \/ LoopUpdatePlacement
    \/ RenderQuad
    \/ SwapBuffers
    \/ Cleanup
    \/ ClearOpenGl

SpecMain == MainInit /\ [][MainNext]_vars

\* One of the four wrapper classes, and storage for NumObjects objects of it
WrappersInit ==
    /\ wrapperClass \in WrapperClasses
    /\ objects = [o \in Objects |-> NoObject("unborn")]
    /\ handlesCreated = 0
    /\ deletions = <<>>
    /\ TimerAbsent
    /\ CameraAbsent
    /\ RotationsNotBuilt
    /\ BufferAbsent
    /\ MainNotStarted

WrappersNext ==
    /\ \/ \E this \in Objects : ResourceCtor(this)
       \/ \E this \in Objects : addTextureAttachment(this)
       \/ \E this \in Objects : addRenderBufferAttachment(this)
       \/ \E this \in Objects, other \in Objects : MoveCtor(this, other)
       \/ \E this \in Objects, other \in Objects : MoveAssign(this, other)
       \/ \E this \in Objects : Dtor(this)
    /\ UNCHANGED <<timerVars, cameraVars, rotVars, uboPrimitives, mainVars>>

SpecWrappers == WrappersInit /\ [][WrappersNext]_vars

(***************************************************************************)
(* Claims about tools::Timer, checked under SpecTimer.                     *)
(***************************************************************************)
\* A step of updateTimer().
TimerUpdated == updates' = updates + 1

\* C5: when a freshly created Timer's first N updates complete no FPS window
\* and the next update comes at least 1000 ms after
\* lastFpsCounterUpdatedTime_, that update sets fps_ = N and
\* fpsCounterReady_ = true; after each earlier update fpsCounterReady_ is
\* false.
C5_FirstWindowSetsFps ==
    [][(TimerUpdated /\ refreshes = 0) =>
        IF currentFrameTick_' - lastFpsCounterUpdatedTime_ >= 1000 * TicksPerMilli
        THEN fps_' = updates /\ fpsCounterReady_'
        ELSE ~fpsCounterReady_']_vars

\* C6: updateTimer() refreshes the FPS counter exactly when at least 1000 ms
\* have elapsed since lastFpsCounterUpdatedTime_, 1000 ms exactly included.
C6_RefreshIffAtLeast1000ms ==
    [][TimerUpdated =>
        IF currentFrameTick_' - lastFpsCounterUpdatedTime_ >= 1000 * TicksPerMilli
        THEN /\ fpsCounterReady_'
             /\ lastFpsCounterUpdatedTime_' = currentFrameTick_'
        ELSE /\ ~fpsCounterReady_'
             /\ lastFpsCounterUpdatedTime_' = lastFpsCounterUpdatedTime_
             /\ fps_' = fps_]_vars

\* C7 as stated: updateTimer() increments framesCount_ before the FPS test,
\* so a refreshing update sets fps_ to the count that includes the current
\* update and leaves framesCount_ = 0.
C7_IncrementBeforeTest ==
    [][(TimerUpdated /\ fpsCounterReady_') =>
        (fps_' = framesCount_ + 1 /\ framesCount_' = 0)]_vars

\* C7 amended: updateTimer() tests the FPS window before it increments
\* framesCount_: a refreshing update sets fps_ to the count of the updates
\* before it (the current one excluded) and leaves framesCount_ = 1; any other
\* update adds one to framesCount_ and keeps fps_.
C7_IncrementAfterTest ==
    [][TimerUpdated =>
        IF fpsCounterReady_'
        THEN fps_' = framesCount_ /\ framesCount_' = 1
        ELSE fps_' = fps_ /\ framesCount_' = framesCount_ + 1]_vars

\* A refreshing update that closed a window of two counted frames.
C7_Witness ==
    fpsCounterReady_ /\ fps_ = 2 /\ framesCount_ = 1 /\ updates = 3

\* C10: delta_ >= 0 in every state, and each updateTimer() leaves
\* previousFrameTick_ = the old currentFrameTick_, currentFrameTick_ = this
\* call's clock sample and delta_ = the whole microseconds between the two.
C10_DeltaIsFrameTime ==
    /\ [](delta_ >= 0)
    /\ [][TimerUpdated =>
            /\ previousFrameTick_' = currentFrameTick_
            /\ currentFrameTick_' = now'
            /\ delta_' * TicksPerMicro <= now' - currentFrameTick_
            /\ now' - currentFrameTick_ < (delta_' + 1) * TicksPerMicro]_vars

\* A second update one 60 Hz frame after the first: delta_ is 16667 us.
C10_Witness ==
    /\ updates = 2
    /\ delta_ = 16667
    /\ currentFrameTick_ - previousFrameTick_ = 166670

\* C12: fpsCounterReady_ is true exactly when the most recent updateTimer()
\* refreshed the FPS counter: it is false after construction, a refreshing
\* update (one whose clock sample is 1001 ms or more after
\* lastFpsCounterUpdatedTime_) sets it, any other update clears it, and
\* nothing else writes it.
C12_ReadyOnlyAfterRefresh ==
    /\ [](updates = 0 => ~fpsCounterReady_)
    /\ [][IF TimerUpdated
           THEN /\ fpsCounterReady_' <=> refreshes' = refreshes + 1
                /\ fpsCounterReady_' <=>
                       currentFrameTick_' - lastFpsCounterUpdatedTime_
                           >= 1001 * TicksPerMilli
                /\ refreshes' = refreshes => ~fpsCounterReady_'
           ELSE fpsCounterReady_' = fpsCounterReady_]_vars

\* The update after a refreshing one: the refresh had set the flag and this
\* update, which did not refresh, cleared it.
C12_Witness ==
    /\ updates = 3
    /\ refreshes = 1
    /\ fps_ = 1
    /\ framesCount_ = 2
    /\ ~fpsCounterReady_

\* C11: getCurrentTime() returns currentFrameTick_ - initializationTime_ (in
\* whole microseconds) and changes no member of the Timer; the value it would
\* return never decreases over updateTimer() calls.
C11_ElapsedMonotone ==
    /\ [][currentTime' # currentTime =>
            /\ UNCHANGED <<currentFrameTick_, previousFrameTick_,
                           lastFpsCounterUpdatedTime_, initializationTime_,
                           framesCount_, fps_, fpsCounterReady_, delta_>>
            /\ LET ticks == currentFrameTick_ - initializationTime_
               IN  IF ticks >= 0
                   THEN /\ currentTime' * TicksPerMicro <= ticks
                        /\ ticks < (currentTime' + 1) * TicksPerMicro
                   ELSE /\ (currentTime' - 1) * TicksPerMicro < ticks
                        /\ ticks <= currentTime' * TicksPerMicro]_vars
    /\ [][TimerUpdated =>
            /\ currentFrameTick_' - initializationTime_
                   >= currentFrameTick_ - initializationTime_
            /\ Elapsed(currentFrameTick_', initializationTime_)
                   >= Elapsed(currentFrameTick_, initializationTime_)]_vars

\* getCurrentTime() called after two updates, a 60 Hz frame and a second
\* after construction: 1016667 us.
C11_Witness ==
    /\ updates = 2
    /\ currentTime = 1016667
    /\ currentFrameTick_ - initializationTime_ = 10166670

\* C26: getCurrentTime() is never negative: in every state, the one right
\* after construction included, currentFrameTick_ is not earlier than
\* initializationTime_, and no call of getCurrentTime() returned less than 0.
C26_CurrentTimeNeverNegative ==
    /\ currentFrameTick_ >= initializationTime_
    /\ currentTime >= 0

\* C25: the FPS counter loses no frame and counts none twice: in every state
\* the values assigned to fps_ by the refreshes so far, added up, plus
\* framesCount_ is the number of updateTimer() calls made since construction.
C25_FramesConserved == fpsAssigned + framesCount_ = updates

\* Four updates, the third of which closed a window of two frames.
C25_Witness ==
    /\ updates = 4
    /\ refreshes = 1
    /\ fpsAssigned = 2
    /\ fps_ = 2
    /\ framesCount_ = 2

(***************************************************************************)
(* Claims about tools::Camera, checked under SpecCamera and SpecRotation.  *)
(***************************************************************************)
\* C1: after the constructor and after every setPosition(p, true),
\* setOrientation(o, true) and updatePlacement(dt), modelMatrix_ is
\* translate(position_) * rotation(orientation_) and viewMatrix_ is its
\* inverse.
C1_ViewIsInverseOfModel ==
    /\ modelMatrix_ = Mat4Mul(GlmTranslate(Identity4, position_),
                              makeRotationMatrixQuaternion(orientation_))
    /\ viewMatrix_ = GlmInverse(modelMatrix_)
    /\ Mat4Mul(viewMatrix_, modelMatrix_) = Identity4
    /\ Mat4Mul(modelMatrix_, viewMatrix_) = Identity4

\* A turned camera that updatePlacement() has moved off the positions
\* setPosition() is given.
C1_Witness ==
    /\ orientation_ = <<90, 90, 0>>
    /\ position_ \notin PositionInputs
    /\ velocityRel_ # Zero3
    /\ viewMatrix_ # modelMatrix_

\* C8: updatePlacement(dt) sets position_ to position_ + velocity_ * dt +
\* R(orientation_) * velocityRel_ * dt, R being the rotation of the
\* orientation held when the call starts, and then recomputes modelMatrix_
\* and viewMatrix_ from the new position; from position (0,0,0), orientation
\* (0,0,0), velocity_ (0,1,0), velocityRel_ (0,0,0), updatePlacement(0.5)
\* yields position (0,0.5,0).
C8_PlacementIntegratesVelocities ==
    [][\A dt \in DeltaInputs : updatePlacement(dt) =>
        LET R == Mat3Of(makeRotationMatrixQuaternion(orientation_))
        IN  /\ position_' =
                   Vec3Add(position_,
                           Vec3Add(Vec3Scale(velocity_, dt),
                                   Vec3Scale(Mat3MulVec(R, velocityRel_), dt)))
            /\ modelMatrix_' =
                   Mat4Mul(GlmTranslate(Identity4, position_'),
                           makeRotationMatrixQuaternion(orientation_))
            /\ viewMatrix_' = GlmInverse(modelMatrix_')
            /\ (/\ position_ = Zero3
                /\ orientation_ = Zero3
                /\ velocity_ = <<0, Fix, 0>>
                /\ velocityRel_ = Zero3
                /\ 2 * dt = Fix) => position_' = <<0, Fix \div 2, 0>>]_vars

\* The camera of the example after updatePlacement(0.5): at (0,0.5,0).
C8_Witness ==
    /\ position_ = <<0, Fix \div 2, 0>>
    /\ orientation_ = Zero3
    /\ velocity_ = <<0, Fix, 0>>
    /\ velocityRel_ = Zero3
    /\ modelMatrix_[4] = <<0, Fix \div 2, 0, Fix>>

PoseSyncedAt(p, o, model, view) ==
    /\ model = Mat4Mul(GlmTranslate(Identity4, p),
                       makeRotationMatrixQuaternion(o))
    /\ view = GlmInverse(model)

\* modelMatrix_ and viewMatrix_ are the matrices of the pose the camera holds.
PoseSynced ==
    PoseSyncedAt(position_, orientation_, modelMatrix_, viewMatrix_)

\* A call that recomputes modelMatrix_ and viewMatrix_.
RecomputingCall ==
    \/ \E p \in PositionInputs : setPosition(p, TRUE)
    \/ \E o \in LazyOrientationInputs : setOrientation(o, TRUE)
    \/ \E deltaTime \in DeltaInputs : updatePlacement(deltaTime)

\* A setter called with updateMatrices = false.
BatchedCall ==
    \/ \E p \in PositionInputs : setPosition(p, FALSE)
    \/ \E o \in LazyOrientationInputs : setOrientation(o, FALSE)

\* C18: modelMatrix_ and viewMatrix_ are those of the pose held when the most
\* recent recomputing call returned: they match the pose after the
\* constructor; setPosition or setOrientation with updateMatrices = false
\* changes position_ or orientation_ only and leaves both matrices as they
\* were; and setPosition or setOrientation with updateMatrices = true, or
\* updatePlacement, leaves both matrices equal to those of the pose then
\* held, fields set by earlier batched calls included.
C18_MatricesFollowLastRecompute ==
    /\ PoseSynced
    /\ [][/\ (BatchedCall =>
                  /\ UNCHANGED <<modelMatrix_, viewMatrix_, velocity_,
                                 velocityRel_, projectionVars>>
                  /\ \/ position_' = position_
                     \/ orientation_' = orientation_)
           /\ (RecomputingCall =>
                  \E p \in {position_'}, o \in {orientation_'},
                     model \in {modelMatrix_'}, view \in {viewMatrix_'} :
                      PoseSyncedAt(p, o, model, view))
          ]_vars

\* Matrices of the pose ((0,0.5,-0.5), no rotation) while two batched calls
\* have since set both the position and the orientation.
C18_Witness ==
    /\ position_ = <<2, -2, 0>>
    /\ orientation_ = <<90, 0, 0>>
    /\ modelMatrix_ = GlmTranslate(Identity4, <<0, 1, -1>>)
    /\ viewMatrix_ = GlmTranslate(Identity4, <<0, -1, 1>>)

\* projectionMatrix_ is the projection of the parameters the camera holds
\* and projectionInverseMatrix_ its inverse.
ProjectionSynced ==
    /\ projectionMatrix_ =
           IF projectionType_ = 0
           THEN [glm |-> "perspectiveRH_ZO",
                 args |-> <<fov_, aspect_, zNear_, zFar_>>]
           ELSE [glm |-> "orthoRH_ZO",
                 args |-> <<(-((fov_ * aspect_) \div 100)) \div 2,
                            ((fov_ * aspect_) \div 100) \div 2,
                            (-fov_) \div 2, fov_ \div 2, zNear_, zFar_>>]
    /\ projectionInverseMatrix_ =
           [glm |-> "inverse", args |-> <<projectionMatrix_>>]

\* A projection setter called with updateMatrix = true.
RecomputingProjectionSetter ==
    \/ \E v \in ZNearInputs : setZNear(v, TRUE)
    \/ \E v \in ZFarInputs : setZFar(v, TRUE)
    \/ \E v \in ProjectionTypeInputs : setProjectionType(v, TRUE)
    \/ \E v \in AspectInputs : setAspect(v, TRUE)
    \/ \E v \in FovInputs : setFov(v, TRUE)

\* A step of setPosition, setOrientation or updatePlacement: the only
\* operations that write position_ or orientation_.
PoseMutator ==
    \/ position_' /= position_
    \/ orientation_' /= orientation_

\* C17: after the constructor and after every setFov, setAspect, setZNear,
\* setZFar or setProjectionType called with updateMatrix = true,
\* projectionMatrix_ is the projection built from the current fov_, aspect_,
\* zNear_, zFar_ and projectionType_ and projectionInverseMatrix_ is its
\* inverse; setPosition, setOrientation and updatePlacement leave both
\* matrices unchanged.
C17_ProjectionSynced ==
    /\ ProjectionSynced
    /\ [][/\ (RecomputingProjectionSetter => ProjectionSynced')
           /\ (PoseMutator =>
                  UNCHANGED <<projectionMatrix_, projectionInverseMatrix_>>)
          ]_vars

\* An orthogonal projection of fov 90, aspect 2, zNear 0.1, built by a
\* setter, on a camera that has been moved and turned since.
C17_Witness ==
    /\ projectionType_ = eOrthogonal
    /\ projectionMatrix_ =
           [glm |-> "orthoRH_ZO",
            args |-> <<-9000, 9000, -4500, 4500, 10, 100000>>]
    /\ projectionInverseMatrix_ =
           [glm |-> "inverse", args |-> <<projectionMatrix_>>]
    /\ position_ = <<2, -2, 0>>
    /\ orientation_ = <<90, 0, 0>>

C23_GetVelocityIsWorldVelocity == getVelocity = velocity_

(***************************************************************************)
(* Claims about the encoder, checked under SpecEncoder.                    *)
(***************************************************************************)
\* The size bytes at offset off of slot k of the store buf.
SlotBytes(buf, k, off, size) ==
    SubSeq(buf, 128 * k + off + 1, 128 * k + off + size)

\* C2: after writeToUniformBuffer(buffer, k) of a Sphere, Plane or Rectangle
\* the slot at byte 128k holds the type tag at offset 0, position at 16,
\* orientation at 32, sphere radius at 44, plane normal at 48, rectangle size
\* at 64, box size at 80 (zero: none of the three has one), material type at
\* 92, albedo at 96, roughness at 108 and refraction index at 112, each the
\* bytes of the primitive's field.
C2_SlotHoldsFields ==
    [][\A p \in PrimitiveInputs, k \in SlotInputs : Encode(p, k) =>
        LET at(off, size) == SlotBytes(uboPrimitives', k, off, size)
        IN  /\ p.class = "PrimitiveSphere" =>
                   at(0, 4) = <<1, 0, 0, 0>> /\ at(44, 4) = Float32Bytes(p.radius_)
            /\ p.class = "PrimitivePlane" =>
                   at(0, 4) = <<2, 0, 0, 0>> /\ at(48, 12) = VecBytes(p.normal_)
            /\ p.class = "PrimitiveRectangle" =>
                   at(0, 4) = <<3, 0, 0, 0>> /\ at(64, 8) = VecBytes(p.sizes_)
            /\ at(16, 12) = VecBytes(p.position_)
            /\ at(32, 12) = VecBytes(p.orientation_)
            /\ at(80, 12) = VecBytes(Zero3)
            /\ at(92, 4) = Int32Bytes(p.materialInfo_.type)
            /\ at(96, 12) = VecBytes(p.materialInfo_.albedo)
            /\ at(108, 4) = Float32Bytes(p.materialInfo_.roughness)
            /\ at(112, 4) = Float32Bytes(p.materialInfo_.refraction)]_vars

\* Slot 0 read back after the sphere of the specification was encoded there:
\* type 1, position (1,2,3), radius 2.5, material type 1 (Lambert), albedo
\* (0.1,0.2,0.3), roughness 0.5.
C2_Witness ==
    /\ SlotBytes(uboPrimitives, 0, 0, 4) = <<1, 0, 0, 0>>
    /\ SlotBytes(uboPrimitives, 0, 16, 12) =
           <<0, 0, 128, 63, 0, 0, 0, 64, 0, 0, 64, 64>>
    /\ SlotBytes(uboPrimitives, 0, 44, 4) = <<0, 0, 32, 64>>
    /\ SlotBytes(uboPrimitives, 0, 92, 4) = <<1, 0, 0, 0>>
    /\ SlotBytes(uboPrimitives, 0, 96, 12) =
           <<205, 204, 204, 61, 205, 204, 76, 62, 154, 153, 153, 62>>
    /\ SlotBytes(uboPrimitives, 0, 108, 4) = <<0, 0, 0, 63>>

\* C3: writeToUniformBuffer(buffer, k) changes no byte of the primitive
\* buffer outside [128k, 128k + 128).
C3_OtherSlotsUntouched ==
    [][\A p \in PrimitiveInputs, k \in SlotInputs : Encode(p, k) =>
        /\ SubSeq(uboPrimitives', 1, 128 * k) = SubSeq(uboPrimitives, 1, 128 * k)
        /\ SubSeq(uboPrimitives', 128 * k + 129, Len(uboPrimitives'))
               = SubSeq(uboPrimitives, 128 * k + 129, Len(uboPrimitives))
        /\ Len(uboPrimitives') = Len(uboPrimitives)]_vars

\* Slot 0 holds a sphere and slot 1, encoded as well, a rectangle: neither
\* encode disturbed the other slot, and the slot after them is as allocated.
C3_Witness ==
    /\ SlotBytes(uboPrimitives, 0, 0, 4) = <<1, 0, 0, 0>>
    /\ SlotBytes(uboPrimitives, 0, 112, 4) = Float32Bytes(150)
    /\ SlotBytes(uboPrimitives, 1, 0, 4) = <<3, 0, 0, 0>>
    /\ SlotBytes(uboPrimitives, 1, 112, 4) = Float32Bytes(150)
    /\ SlotBytes(uboPrimitives, 2, 0, 4) = <<170, 170, 170, 170>>

\* C4: calling writeToUniformBuffer a second time with the same primitive and
\* the same slot leaves the buffer as the first call left it.
C4_EncodeIdempotent ==
    [][\A p \in PrimitiveInputs, k \in SlotInputs : Encode(p, k) =>
        writeToUniformBuffer(p, uboPrimitives', k) = uboPrimitives']_vars

\* The rectangle encoded into the last slot, next to a slot holding a plane;
\* encoding it there again changes nothing.
C4_Witness ==
    /\ SlotBytes(uboPrimitives, MAX_PRIMITIVES - 1, 0, 4) = <<3, 0, 0, 0>>
    /\ SlotBytes(uboPrimitives, MAX_PRIMITIVES - 1, 64, 8)
           = VecBytes(LightRectangle.sizes_)
    /\ SlotBytes(uboPrimitives, 0, 48, 12) = VecBytes(WhitePlane.normal_)
    /\ writeToUniformBuffer(LightRectangle, uboPrimitives, MAX_PRIMITIVES - 1)
           = uboPrimitives

\* C13: after a primitive is encoded into a slot, the shape fields of the
\* other variants are zero there: a sphere's slot has zero plane normal,
\* rectangle size and box size; a plane's slot zero radius, rectangle size and
\* box size; a rectangle's slot zero radius, plane normal and box size.
C13_ForeignShapeFieldsZero ==
    [][\A p \in PrimitiveInputs, k \in SlotInputs : Encode(p, k) =>
        LET at(off, size) == SlotBytes(uboPrimitives', k, off, size)
            radiusZero == at(44, 4) = <<0, 0, 0, 0>>
            normalZero == at(48, 12) = <<0, 0, 0, 0, 0, 0, 0, 0, 0, 0, 0, 0>>
            sizesZero == at(64, 8) = <<0, 0, 0, 0, 0, 0, 0, 0>>
            boxZero == at(80, 12) = <<0, 0, 0, 0, 0, 0, 0, 0, 0, 0, 0, 0>>
        IN  /\ p.class = "PrimitiveSphere" =>
                   normalZero /\ sizesZero /\ boxZero
            /\ p.class = "PrimitivePlane" =>
                   radiusZero /\ sizesZero /\ boxZero
            /\ p.class = "PrimitiveRectangle" =>
                   radiusZero /\ normalZero /\ boxZero]_vars

\* A buffer allocated with every byte 170 whose slot 1 received a plane:
\* radius, rectangle size and box size of the slot are zero, the slot after it
\* is as allocated.
C13_Witness ==
    /\ SlotBytes(uboPrimitives, 1, 0, 4) = <<2, 0, 0, 0>>
    /\ SlotBytes(uboPrimitives, 1, 48, 12) = VecBytes(WhitePlane.normal_)
    /\ SlotBytes(uboPrimitives, 1, 44, 4) = <<0, 0, 0, 0>>
    /\ SlotBytes(uboPrimitives, 1, 64, 8) = <<0, 0, 0, 0, 0, 0, 0, 0>>
    /\ SlotBytes(uboPrimitives, 1, 80, 4) = <<0, 0, 0, 0>>
    /\ SlotBytes(uboPrimitives, 2, 44, 4) = <<170, 170, 170, 170>>

\* C14: after writeToUniformBuffer(buffer, k), whatever the buffer held
\* before, the padding bytes of slot k are zero: the 12 bytes after the type
\* tag, the 4 after position, the 4 after the plane normal, the 8 after the
\* rectangle size and the 12 bytes [128k + 116, 128k + 128).
C14_PaddingZero ==
    [][\A p \in PrimitiveInputs, k \in SlotInputs : Encode(p, k) =>
        LET at(off, size) == SlotBytes(uboPrimitives', k, off, size)
        IN  /\ at(4, 12) = <<0, 0, 0, 0, 0, 0, 0, 0, 0, 0, 0, 0>>
            /\ at(28, 4) = <<0, 0, 0, 0>>
            /\ at(60, 4) = <<0, 0, 0, 0>>
            /\ at(72, 8) = <<0, 0, 0, 0, 0, 0, 0, 0>>
            /\ at(116, 12) = <<0, 0, 0, 0, 0, 0, 0, 0, 0, 0, 0, 0>>]_vars

\* C24: no encoder call writes the Box tag: the four bytes at offset 0 of a
\* slot are never those of 4, and an encode leaves there 1 for a sphere, 2 for
\* a plane and 3 for a rectangle.
C24_NoBoxTag ==
    /\ [](\A k \in 0..9 : SlotBytes(uboPrimitives, k, 0, 4) /= <<4, 0, 0, 0>>)
    /\ [][\A p \in PrimitiveInputs, k \in SlotInputs : Encode(p, k) =>
            /\ SlotBytes(uboPrimitives', k, 0, 4) \in
                   {<<1, 0, 0, 0>>, <<2, 0, 0, 0>>, <<3, 0, 0, 0>>}
            /\ SlotBytes(uboPrimitives', k, 0, 4)[1] =
                   CASE p.class = "PrimitiveSphere" -> 1
                     [] p.class = "PrimitivePlane" -> 2
                     [] p.class = "PrimitiveRectangle" -> 3]_vars

\* Every variant has been encoded: a rectangle in slot 0, a sphere in slot 1,
\* a plane in the last slot.
C24_Witness ==
    /\ SlotBytes(uboPrimitives, 0, 0, 4) = <<3, 0, 0, 0>>
    /\ SlotBytes(uboPrimitives, 1, 0, 4) = <<1, 0, 0, 0>>
    /\ SlotBytes(uboPrimitives, 9, 0, 4) = <<2, 0, 0, 0>>

\* C28: re-encoding overwrites completely: whatever the buffer holds, for any
\* primitives A and B and any slot k, encoding A into slot k and then B into
\* slot k leaves the buffer byte for byte as encoding B alone into slot k
\* does.
C28_ReencodeOverwrites ==
    \A A \in PrimitiveInputs, B \in PrimitiveInputs, k \in SlotInputs :
        writeToUniformBuffer(B, writeToUniformBuffer(A, uboPrimitives, k), k)
            = writeToUniformBuffer(B, uboPrimitives, k)

\* A buffer allocated with every byte 170 whose slot 0 holds the sphere and
\* whose slot 1 holds the rectangle: encoding the plane into either would
\* change it.
C28_Witness ==
    /\ SlotBytes(uboPrimitives, 0, 4, 4) = <<170, 170, 170, 170>>
    /\ SlotBytes(uboPrimitives, 0, 44, 4) = Float32Bytes(SpecSphere.radius_)
    /\ SlotBytes(uboPrimitives, 1, 64, 8) = VecBytes(LightRectangle.sizes_)
    /\ writeToUniformBuffer(WhitePlane, uboPrimitives, 0) /= uboPrimitives
    /\ writeToUniformBuffer(WhitePlane, uboPrimitives, 1) /= uboPrimitives

(***************************************************************************)
(* Claims about main(), checked under SpecMain.                            *)
(***************************************************************************)
\* main() is past the scene setup and inside the frame loop (the creation of
\* the Timer included).
InFrameLoopOrSetup ==
    pc \in {"encode", "newTimer", "updateTimer", "Controls", "PeekMessage",
            "updatePlacement", "RenderQuad", "SwapBuffers"}

\* main() is past scene setup and inside the frame loop (its entry, the
\* construction of the Timer, included).
InFrameLoop ==
    pc \in {"newTimer", "updateTimer", "Controls", "PeekMessage",
            "updatePlacement", "RenderQuad", "SwapBuffers"}

\* Slot k of the store buf holds the std140 encoding of the primitive p.
SlotHolds(buf, k, p) ==
    LET at(off, size) == SlotBytes(buf, k, off, size)
        m == p.materialInfo_
    IN  /\ at(0, 4) = CASE p.class = "PrimitiveSphere" -> <<1, 0, 0, 0>>
                        [] p.class = "PrimitivePlane" -> <<2, 0, 0, 0>>
                        [] p.class = "PrimitiveRectangle" -> <<3, 0, 0, 0>>
        /\ at(16, 12) = VecBytes(p.position_)
        /\ at(32, 12) = VecBytes(p.orientation_)
        /\ at(44, 4) = Float32Bytes(p.radius_)
        /\ at(48, 12) = VecBytes(p.normal_)
        /\ at(64, 8) = VecBytes(p.sizes_)
        /\ at(80, 12) = VecBytes(Zero3)
        /\ at(92, 4) = Int32Bytes(m.type)
        /\ at(96, 12) = VecBytes(m.albedo)
        /\ at(108, 4) = Float32Bytes(m.roughness)
        /\ at(112, 4) = Float32Bytes(m.refraction)

\* C15: once scene setup has finished, in every state of the frame loop, the
\* 4-byte count at offset 0 of the header buffer is the number of primitives
\* of g_primitives (nine), and for every i below it slot i of the primitive
\* buffer holds the encoding of the i-th primitive pushed.
C15_BuffersMirrorScene ==
    InFrameLoop =>
        /\ Len(g_primitives) = 9
        /\ SubSeq(uboCommonSettings, 1, 4) = <<9, 0, 0, 0>>
        /\ \A k \in 0..(Len(g_primitives) - 1) :
               SlotHolds(uboPrimitives, k, g_primitives[k + 1])

\* The second frame is about to be presented: the header says 9, slot 5 is
\* the metal sphere of radius 2, slot 8 the light rectangle, slot 9 is as
\* allocated.
C15_Witness ==
    /\ pc = "SwapBuffers"
    /\ updates = 2
    /\ SubSeq(uboCommonSettings, 1, 8) = <<9, 0, 0, 0, 170, 170, 170, 170>>
    /\ SlotBytes(uboPrimitives, 5, 0, 4) = <<1, 0, 0, 0>>
    /\ SlotBytes(uboPrimitives, 5, 44, 4) = <<0, 0, 0, 64>>
    /\ SlotBytes(uboPrimitives, 8, 0, 4) = <<3, 0, 0, 0>>
    /\ SlotBytes(uboPrimitives, 9, 0, 4) = <<170, 170, 170, 170>>

\* C16: every writeToUniformBuffer call of main() is given a slot index
\* below MAX_PRIMITIVES, so the bytes it writes lie inside the
\* PRIMITIVE_SIZE * MAX_PRIMITIVES bytes of the primitive buffer (and the
\* write is carried out: the slot holds the primitive afterwards).
C16_EncodeIndexInRange ==
    [][(pc = "encode" /\ encodeIndex' = encodeIndex + 1) =>
        /\ encodeIndex < 10
        /\ 128 * encodeIndex + 128 <= Len(uboPrimitives)
        /\ Len(uboPrimitives) = 1280
        /\ SlotHolds(uboPrimitives', encodeIndex,
                     g_primitives[encodeIndex + 1])
        /\ Len(uboPrimitives') = 1280]_vars

\* The encode loop is over: its ninth and last call wrote slot 8, which ends
\* at byte 1152 of 1280.
C16_Witness ==
    /\ pc = "encode"
    /\ encodeIndex = 9
    /\ encodeIndex = Len(g_primitives)
    /\ SlotBytes(uboPrimitives, 8, 0, 4) = <<3, 0, 0, 0>>
    /\ SlotBytes(uboPrimitives, 8, 112, 4) = <<0, 0, 192, 63>>

\* C19: the Timer is constructed before the first iteration of the frame
\* loop, and an iteration that reaches SwapBuffers has performed, in this
\* order and once each, updateTimer, Controls, updatePlacement, RenderQuad
\* and SwapBuffers, updatePlacement being given the delta_ that the
\* iteration's own updateTimer computed.
C19_FrameOrder ==
    /\ [][pc = "newTimer" =>
            /\ frameOps = <<>>
            /\ updates = 0
            /\ pc' = "updateTimer"
            /\ delta_' = 0
            /\ initializationTime_' = now']_vars
    /\ [][pc' = "updateTimer" => pc \in {"newTimer", "SwapBuffers"}]_vars
    /\ [][(updates' /= updates \/ delta_' /= delta_) =>
            /\ pc = "updateTimer"
            /\ updates' = updates + 1
            /\ frameOps' = <<"updateTimer">>]_vars
    /\ [][pc = "updatePlacement" =>
            /\ frameOps = <<"updateTimer", "Controls">>
            /\ placementDelta' = delta_
            /\ position_' =
                   PlacedPosition(position_, orientation_, velocity_,
                                  velocityRel_, (delta_ * Fix) \div 1000000)]_vars
    /\ [][pc = "SwapBuffers" =>
            /\ frameOps' = <<"updateTimer", "Controls", "updatePlacement",
                             "RenderQuad", "SwapBuffers">>
            /\ placementDelta = delta_
            /\ pc' = "updateTimer"]_vars

\* The second frame has been presented; its updateTimer measured 1001 ms and
\* updatePlacement moved the camera by that much time.
C19_Witness ==
    /\ pc = "updateTimer"
    /\ updates = 2
    /\ frameOps = <<"updateTimer", "Controls", "updatePlacement",
                    "RenderQuad", "SwapBuffers">>
    /\ delta_ = 1001000
    /\ placementDelta = 1001000
    /\ position_ /= <<0, 0, 10 * Fix>>

C22_UniformsAreCameraState ==
    [][pc = "RenderQuad" =>
        /\ shaderUniforms'.camFov = fov_
        /\ shaderUniforms'.camPosition = position_
        /\ shaderUniforms'.viewMatrix = viewMatrix_
        /\ shaderUniforms'.camModelMatrix = modelMatrix_]_vars

\* C29: every step of main() that issues OpenGL calls (InitOpenGl once GLAD
\* has loaded, the encode loop, RenderQuad, and ClearOpenGl on the normal and
\* on the exception path) is taken while the OpenGL context created at
\* startup exists and is current and, InitOpenGl apart, after the functions
\* were loaded.
C29_GlCallsInsideContext ==
    [][(pc \in {"InitOpenGl", "encode", "RenderQuad", "ClearOpenGl"}) =>
        /\ glContext = "current"
        /\ (pc /= "InitOpenGl" => glLoaded)]_vars

(***************************************************************************)
(* Claims about the wrappers of gl/, checked under SpecWrappers.           *)
(***************************************************************************)
LiveHolders(h) == {o \in DOMAIN objects : objects[o].life = "live" /\ h \in Held(objects[o])}

\* How many members of obj hold h
Occurrences(obj, h) == Cardinality({j \in DOMAIN obj.ids : obj.ids[j] = h}) + Cardinality({j \in DOMAIN obj.textureAttachments_ : obj.textureAttachments_[j] = h}) + Cardinality({j \in DOMAIN obj.renderBufferAttachments_ : obj.renderBufferAttachments_[j] = h})

\* A generated handle is either not deleted and held by exactly one member of
\* exactly one live object, or deleted once and held by nobody
HandlesOwnedOnce ==
    \A h \in 1..handlesCreated :
        \/ /\ deletions[h] = 0
           /\ Cardinality(LiveHolders(h)) = 1
           /\ \A o \in LiveHolders(h) : Occurrences(objects[o], h) = 1
        \/ /\ deletions[h] = 1
           /\ LiveHolders(h) = {}

\* Once every object is destroyed, every generated handle was deleted once
AllDeletedAtEnd ==
    (\A o \in DOMAIN objects : objects[o].life = "destroyed") => (\A h \in 1..handlesCreated : deletions[h] = 1)

\* The step took a handle out of object o without deleting it: o was moved
\* from, by a move constructor or a move assignment
MovedOutOf(o) ==
    /\ objects[o].life = "live"
    /\ objects'[o].life = "live"
    /\ \E h \in Held(objects[o]) \ Held(objects'[o]) : deletions'[h] = 0

\* After a move the source holds 0 in every scalar member and no attachment
MoveLeavesZero ==
    \A o \in DOMAIN objects :
        MovedOutOf(o) => (Held(objects'[o]) = {} /\ objects'[o].ids = Zeros(IdCount(wrapperClass)))

\* C30: the four wrappers are move-only owners: every non-zero handle is
\* held by at most one wrapper, a moved-from wrapper holds 0, and every
\* handle is deleted exactly once.
C30_MoveOnlyOwnership == [](HandlesOwnedOnce /\ AllDeletedAtEnd) /\ [][MoveLeavesZero]_vars

\* A FrameBuffer with an attachment was move-assigned over another one: the
\* target's old framebuffer is deleted, the source is left with 0
C30_Witness ==
    /\ wrapperClass = "FrameBuffer"
    /\ objects[1] = MovedFrom("FrameBuffer", objects[1])
    /\ objects[2] = [life |-> "live", ids |-> <<1>>, textureAttachments_ |-> <<2>>, renderBufferAttachments_ |-> <<>>]
    /\ deletions = <<0, 0, 1>>

====
